---- MODULE Spec2Model ----
(***************************************************************************)
(* Radarpro: the report lifecycle and expiry engine.                       *)
(*                                                                         *)
(*   - the Expiry Calculator (ReportExpiryService's static functions),     *)
(*   - the report store (the `reports` table behind SupabaseService),      *)
(*   - the Expiry Sweeper (ReportExpiryService.start/stop/                 *)
(*     checkExpiredReports), one instance per connected client,            *)
(*   - the local ordered view of a screen fed by the change feed.          *)
(*                                                                         *)
(* Timestamps are epoch milliseconds (Date.getTime()).                     *)
(***************************************************************************)
EXTENDS Integers, Sequences, FiniteSets, TLC

VARIABLES
    clock,      \* the current instant, ms (new Date() / the database's NOW())
    calc,       \* one evaluation of the Expiry Calculator: inputs and results
    reports,    \* the `reports` table: report id -> row
    deletes,    \* the deleteExpiredReports() requests on their way: their cutoffs
    isRunning,  \* per client: ReportExpiryService.isRunning
    intervalId, \* per client: ReportExpiryService.intervalId (a handle, 0 for null)
    timers,     \* per client: the live setInterval handles of the runtime
    sweeps,     \* the checkExpiredReports() runs in flight, in the order begun
    begun,      \* how many checkExpiredReports() runs were begun so far
    screen,     \* the consumer of the change feed: "timeline", "hook" or "none"
    feed,       \* the change events the channel has not delivered yet
    published,  \* how many change events the channel was given so far
    hydrations, \* the callbacks waiting for getReportById, in the order begun
    view,       \* the screen's `reports` state: the local ordered view
    timeline,   \* TimelineScreen's offset, hasMore, loadingMore
    loads,      \* the loadReports() calls in flight, in the order begun
    calls,      \* how often each handler was invoked so far, per report id
    subscribed, \* the screen's subscription to the channel is open
    mounted,    \* the screen's component is mounted: its state setters act
    currentUser, \* the user signed in on the screen's client
    notified,   \* how often sendComprehensiveNotification was called, per
                \* notification type and report id
    preferences, \* the stored ComprehensiveNotificationPreferences
    lastNotificationTimes, \* NotificationService.lastNotificationTimes
    notifications, \* per category: the list NotificationStorage holds, newest first
    issued,     \* how many notification ids storeNotification generated so far
    returned,   \* the ids of the records storeNotification returned
    dispatched, \* per category: the system notifications scheduled
    sending,    \* the sendComprehensiveNotification calls and where they are
    queue,      \* AsyncStorage 'offline_notification_queue': the pending queue
    failed,     \* AsyncStorage 'failed_notifications': the failed list
    queueing,   \* the queueNotification() calls and where they are
    run,        \* the processQueuedNotifications() run, if one is in flight
    housekeeping, \* the retryFailedNotifications() or clearAllQueues() call
                \* in flight, if one is
    attempts,   \* per queued id: the sends attempted since it was queued
    session,    \* the most recent auth event carried a user session
    handlers,   \* the sign-in handlers in flight and where they are
    nextTick,   \* per client: the instant the live interval fires next
    updates,    \* the updateCategoryPreferences / updateGlobalSettings calls
                \* in flight, in the order begun
    storageOps, \* the NotificationStorage calls in flight that rewrite or
                \* remove the stored lists, in the order begun
    removed     \* the ids of the records explicitly deleted, cleaned up or
                \* cleared from the stored lists

calcVars == <<calc>>

storeVars == <<reports, deletes>>

sweeperVars == <<isRunning, intervalId, timers, sweeps, begun>>

viewVars == <<screen, feed, published, hydrations, view, timeline, loads, calls>>

relayVars == <<subscribed, mounted, currentUser, notified>>

notifyVars ==
    <<preferences, lastNotificationTimes, notifications, issued, returned,
      dispatched, sending>>

offlineVars == <<queue, failed, queueing, run, housekeeping, attempts>>

authVars == <<session, handlers>>

settingsVars == <<updates, storageOps, removed>>

appVars == <<offlineVars, authVars, nextTick, settingsVars>>

vars ==
    <<clock, calc, reports, deletes, isRunning, intervalId, timers, sweeps, begun,
      screen, feed, published, hydrations, view, timeline, loads, calls,
      subscribed, mounted, currentUser, notified,
      preferences, lastNotificationTimes, notifications, issued, returned,
      dispatched, sending,
      queue, failed, queueing, run, housekeeping, attempts, session, handlers, nextTick,
      updates, storageOps, removed>>

NULL == "null"

Max(a, b) == IF a >= b THEN a ELSE b

(***************************************************************************)
(* Category Policy Table                                                   *)
(***************************************************************************)
Categories ==
    {"police_checkpoint", "weather_alert", "accident",
     "general", "road_hazard", "traffic_jam"}

\* ReportExpiryService.EXPIRY_TIMES, minutes
EXPIRY_TIMES(category) ==
    CASE category = "police_checkpoint" -> 5
      [] category = "weather_alert"     -> 2
      [] category = "accident"          -> 2
      [] category = "general"           -> 10
      [] category = "road_hazard"       -> 15
      [] category = "traffic_jam"       -> 15

(***************************************************************************)
(* Expiry Calculator.  `now` is the value of new Date() at the call.       *)
(***************************************************************************)
calculateExpiryTime_secs(category, updatedAt) ==
    updatedAt + (EXPIRY_TIMES(category) * 60)

calculateExpiryTime(category, updatedAt) ==
    updatedAt + (EXPIRY_TIMES(category) * 60 * 1000)

isReportExpired(category, updatedAt, now) ==
    now >= calculateExpiryTime(category, updatedAt)

getTimeUntilExpiry_nomax(category, updatedAt, now) ==
    (calculateExpiryTime(category, updatedAt) - now) \div (60 * 1000)

getTimeUntilExpiry_round(category, updatedAt, now) ==
    Max(0, (calculateExpiryTime(category, updatedAt) - now + 30000) \div (60 * 1000))

\* Math.floor rounds toward minus infinity, as \div does
getTimeUntilExpiry(category, updatedAt, now) ==
    LET diffMs == calculateExpiryTime(category, updatedAt) - now
    IN  Max(0, diffMs \div (60 * 1000))

isReportAboutToExpire_le1(category, updatedAt, now) ==
    getTimeUntilExpiry(category, updatedAt, now) <= 1

isReportAboutToExpire(category, updatedAt, now) ==
    LET timeRemaining == getTimeUntilExpiry(category, updatedAt, now)
    IN  timeRemaining <= 1 /\ timeRemaining > 0

(***************************************************************************)
(* The report store: the `reports` table.  A row that does not exist yet   *)
(* has status "none".  Rows are inserted in id order, so the order of      *)
(* report_timestamp (DEFAULT NOW() at insert) is the order of the ids.     *)
(* updated_at is DEFAULT NOW() and then set by the trigger below, so it is *)
(* never null; created_at, which the code reads only when updated_at is   *)
(* null, is left out.  Row level security is off, as the repository's     *)
(* disable_restrictions.sql leaves it: every client reads and updates     *)
(* every row.  A row that was deleted has status "deleted".               *)
(***************************************************************************)
MaxReports == 2

\* the report ids of a run: the domain its Init gives the table
ReportIds == DOMAIN reports

\* the categories of the reports submitted in the sweeper's runs: a
\* police_checkpoint under the odd ids, an accident under the even ones
SweepCategories == {"police_checkpoint", "accident"}

SubmittedCategory(r) == IF r % 2 = 1 THEN "police_checkpoint" ELSE "accident"

Users == {"U1", "U2"}

\* reports.user_id: U1 submits the reports under the odd ids, U2 the others
AuthorOf(r) == IF r % 2 = 1 THEN "U1" ELSE "U2"

NoRow == [status |-> "none", category |-> NULL, updated_at |-> 0]

StoreInit(ids) ==
    /\ reports = [r \in ids |-> NoRow]
    /\ deletes = <<>>

Existing(store) == {r \in ReportIds : store[r].status \notin {"none", "deleted"}}

RECURSIVE SortedDesc(_)
\* the ids of S, greatest (most recent report_timestamp) first
SortedDesc(S) ==
    IF S = {} THEN <<>>
    ELSE LET m == CHOOSE x \in S : \A y \in S : y <= x
         IN  <<m>> \o SortedDesc(S \ {m})

RowOf(store, r) ==
    [id |-> r, status |-> store[r].status, category |-> store[r].category,
     updated_at |-> store[r].updated_at]

\* SupabaseService.getReports(limit, offset): every status, most recent
\* report_timestamp first, rows offset .. offset + limit - 1
getReports(store, limit, offset) ==
    LET ordered == SortedDesc(Existing(store))
    IN  [i \in 1..Max(0, IF Len(ordered) - offset < limit
                          THEN Len(ordered) - offset ELSE limit)
            |-> RowOf(store, ordered[offset + i])]

\* ORDER BY updated_at DESC, and no second key: the orders of the ids of S
\* with the latest updated_at first.  Rows written at one instant of the
\* model come in either order: the one written later has the later NOW()
\* and comes first, and the database leaves the order of equal values open.
ByUpdatedAtDesc(store, S) ==
    {ordered \in [1..Cardinality(S) -> S] :
        /\ \A i, j \in 1..Cardinality(S) : i # j => ordered[i] # ordered[j]
        /\ \A i \in 1..(Cardinality(S) - 1) :
               store[ordered[i]].updated_at >= store[ordered[i + 1]].updated_at}

\* SupabaseService.getActiveReports(limit, offset): status 'active', latest
\* updated_at first, rows offset .. offset + limit - 1; the lists one query
\* may return
getActiveReports(store, limit, offset) ==
    LET active == {r \in Existing(store) : store[r].status = "active"}
        n == Cardinality(active)
    IN  {[i \in 1..Max(0, IF n - offset < limit THEN n - offset ELSE limit)
             |-> [id |-> ordered[offset + i],
                  status |-> store[ordered[offset + i]].status]] :
            ordered \in ByUpdatedAtDesc(store, active)}

(***************************************************************************)
(* The change feed: the channel of SupabaseService.subscribeToReports      *)
(* (postgres_changes, event '*', table reports).  Every row change is an   *)
(* event for the subscribed screen, delivered in the order of the changes. *)
(***************************************************************************)
\* change events given to the channel in one run of the model, duplicate
\* deliveries included
MaxEvents == 3

\* payload.eventType, payload.new.id (payload.old.id of a DELETE)
Event(type, r) == [eventType |-> type, id |-> r]

Publish(events) ==
    /\ ~subscribed \/ published + Len(events) <= MaxEvents
    /\ feed' = IF ~subscribed THEN feed ELSE feed \o events
    /\ published' = IF ~subscribed THEN published ELSE published + Len(events)
    /\ UNCHANGED <<screen, hydrations, view, timeline, loads, calls>>

\* one UPDATE event per row a bulk update changes, in the order of the ids
UpdateEvents(store, reportIds) ==
    LET ids == SortedDesc(reportIds \cap Existing(store))
    IN  [i \in 1..Len(ids) |-> Event("UPDATE", ids[Len(ids) + 1 - i])]

\* SupabaseService.createReport: status 'active', timestamps DEFAULT NOW()
createReport(r, category) ==
    /\ reports[r].status = "none"
    /\ \A q \in ReportIds : q < r => reports[q].status # "none"
    /\ reports' = [reports EXCEPT ![r] =
           [status |-> "active", category |-> category, updated_at |-> clock]]
    /\ Publish(<<Event("INSERT", r)>>)
    /\ UNCHANGED <<deletes, relayVars, notifyVars, appVars, clock, calcVars, sweeperVars>>

\* the trigger update_reports_updated_at: BEFORE UPDATE, NEW.updated_at = NOW()
TouchRow(row, now) == [row EXCEPT !.updated_at = now]

\* an edit of an active report by its author: an UPDATE of the row
editReport(r) ==
    /\ reports[r].status = "active"
    /\ reports[r].updated_at # clock
    /\ reports' = [reports EXCEPT ![r] = TouchRow(@, clock)]
    /\ Publish(<<Event("UPDATE", r)>>)
    /\ UNCHANGED <<deletes, relayVars, notifyVars, appVars, clock, calcVars, sweeperVars>>

\* the values of reports.status: CHECK (status IN ('active', 'resolved', 'expired'))
ReportStatuses == {"active", "resolved", "expired"}

\* SupabaseService.updateReportStatus(reportId, status): UPDATE reports
\* SET status WHERE id = reportId, whatever the row's status is
updateReportStatus(r, status) ==
    /\ r \in Existing(reports)
    /\ reports' = [reports EXCEPT ![r] = TouchRow([@ EXCEPT !.status = status], clock)]
    /\ Publish(<<Event("UPDATE", r)>>)
    /\ UNCHANGED <<deletes, relayVars, notifyVars, appVars, clock, calcVars, sweeperVars>>

\* SupabaseService.markReportsAsExpired: UPDATE reports SET status = 'expired',
\* updated_at = now WHERE id IN (reportIds)
markReportsAsExpired(store, reportIds, now) ==
    [r \in ReportIds |->
        IF r \in reportIds /\ r \in Existing(store)
        THEN TouchRow([store[r] EXCEPT !.status = "expired"], now)
        ELSE store[r]]

(***************************************************************************)
(* The Expiry Sweeper: one ReportExpiryService instance per client.        *)
(***************************************************************************)
NumClients == 2

\* the clients of a run: the domain its Init gives the services' fields
Clients == DOMAIN isRunning

\* checkExpiredReports() runs begun in one run of the model, over all clients
MaxSweeps == 2

\* the window of SupabaseService.getReports(limit = 50, offset = 0), scaled
\* to the number of reports of the model
GetReportsLimit == 2

Handles == 1..2

NoSweep ==
    [client |-> 0, pc |-> "none", data |-> <<>>, error |-> FALSE,
     now |-> 0, ids |-> {}]

SweeperInit(clients) ==
    /\ isRunning = [c \in clients |-> FALSE]
    /\ intervalId = [c \in clients |-> 0]
    /\ timers = [c \in clients |-> {}]
    /\ sweeps = <<>>
    /\ begun = 0
    /\ nextTick = [c \in clients |-> 0]

\* sweepers that start() left Running, the sweep it began having returned
SweeperRunning(clients) ==
    /\ isRunning = [c \in clients |-> TRUE]
    /\ intervalId = [c \in clients |-> 1]
    /\ timers = [c \in clients |-> {1}]
    /\ sweeps = <<>>
    /\ begun = Cardinality(clients)
    /\ nextTick = [c \in clients |-> 0]

\* a call of checkExpiredReports(): runs to its first await, the request of
\* getReports() is on its way
NewSweep(c) == [NoSweep EXCEPT !.client = c, !.pc = "fetching"]

BeginSweep(c) ==
    /\ begun < MaxSweeps
    /\ begun' = begun + 1
    /\ sweeps' = Append(sweeps, NewSweep(c))

\* the run at position s returns: it leaves the runs in flight
Finish(s) ==
    /\ sweeps' = [i \in 1..(Len(sweeps) - 1) |->
                     IF i < s THEN sweeps[i] ELSE sweeps[i + 1]]
    /\ UNCHANGED begun

FreshHandle(c) == CHOOSE h \in Handles : h \notin timers[c]

start_unguarded(c) ==
    /\ Cardinality(timers[c]) < Cardinality(Handles)
    /\ isRunning' = [isRunning EXCEPT ![c] = TRUE]
    /\ BeginSweep(c)
    /\ timers' = [timers EXCEPT ![c] = @ \cup {FreshHandle(c)}]
    /\ intervalId' = [intervalId EXCEPT ![c] = FreshHandle(c)]
    /\ UNCHANGED <<relayVars, notifyVars, appVars, clock, calcVars, storeVars, viewVars>>

start_body_nosweep(c) ==
    IF isRunning[c]
    THEN UNCHANGED <<isRunning, intervalId, timers, sweeps, begun>>
    ELSE /\ isRunning' = [isRunning EXCEPT ![c] = TRUE]
         /\ timers' = [timers EXCEPT ![c] = @ \cup {FreshHandle(c)}]
         /\ intervalId' = [intervalId EXCEPT ![c] = FreshHandle(c)]
         /\ UNCHANGED <<sweeps, begun>>

\* the body of ReportExpiryService.start()
start_body(c) ==
    IF isRunning[c]
    THEN UNCHANGED <<isRunning, intervalId, timers, sweeps, begun>>
    ELSE /\ isRunning' = [isRunning EXCEPT ![c] = TRUE]
         /\ BeginSweep(c)
         /\ timers' = [timers EXCEPT ![c] = @ \cup {FreshHandle(c)}]
         /\ intervalId' = [intervalId EXCEPT ![c] = FreshHandle(c)]

\* ReportExpiryService.start()
start(c) ==
    /\ start_body(c)
    /\ UNCHANGED <<relayVars, notifyVars, appVars, clock, calcVars, storeVars, viewVars>>

stop_noclear(c) ==
    /\ IF ~isRunning[c]
       THEN UNCHANGED <<isRunning, intervalId, timers>>
       ELSE /\ intervalId' = [intervalId EXCEPT ![c] = 0]
            /\ isRunning' = [isRunning EXCEPT ![c] = FALSE]
            /\ UNCHANGED timers
    /\ UNCHANGED <<relayVars, notifyVars, appVars, clock, calcVars, storeVars, viewVars, sweeps, begun>>

\* the body of ReportExpiryService.stop()
stop_body(c) ==
    /\ IF ~isRunning[c]
       THEN UNCHANGED <<isRunning, intervalId, timers>>
       ELSE /\ timers' = [timers EXCEPT ![c] =
                             IF intervalId[c] # 0 THEN @ \ {intervalId[c]} ELSE @]
            /\ intervalId' = [intervalId EXCEPT ![c] = 0]
            /\ isRunning' = [isRunning EXCEPT ![c] = FALSE]
    /\ UNCHANGED <<sweeps, begun>>

\* ReportExpiryService.stop()
stop(c) ==
    /\ stop_body(c)
    /\ UNCHANGED <<relayVars, notifyVars, appVars, clock, calcVars, storeVars, viewVars>>

\* the callback of setInterval(..., CHECK_INTERVAL): a live timer fires
TimerTick(c) ==
    /\ timers[c] # {}
    /\ BeginSweep(c)
    /\ UNCHANGED <<relayVars, notifyVars, appVars, clock, calcVars, storeVars, viewVars, isRunning, intervalId, timers>>

\* the store answers getReports(): the rows as they are now
FetchReports(s) ==
    /\ sweeps[s].pc = "fetching"
    /\ sweeps' = [sweeps EXCEPT ![s] =
           [@ EXCEPT !.pc = "fetched",
                     !.data = getReports(reports, GetReportsLimit, 0)]]
    /\ UNCHANGED <<relayVars, notifyVars, appVars, clock, calcVars, storeVars, viewVars, isRunning, intervalId, timers, begun>>

\* the store answers getReports() with an error: { data: null, error }
FetchFails(s) ==
    /\ sweeps[s].pc = "fetching"
    /\ sweeps' = [sweeps EXCEPT ![s] = [@ EXCEPT !.pc = "fetched", !.error = TRUE]]
    /\ UNCHANGED <<relayVars, notifyVars, appVars, clock, calcVars, storeVars, viewVars, isRunning, intervalId, timers, begun>>

ActiveReports_all(data) == data

\* allReports?.filter(report => report.status === 'active') || []
ActiveReports(data) == SelectSeq(data, LAMBDA row : row.status = "active")

ExpiredReportIds_strict(rows, now) ==
    {rows[i].id : i \in {k \in 1..Len(rows) :
        now > rows[k].updated_at + EXPIRY_TIMES(rows[k].category) * 60 * 1000}}

\* the loop of checkExpiredReports over the active reports
ExpiredReportIds(rows, now) ==
    {rows[i].id : i \in {k \in 1..Len(rows) :
        now >= rows[k].updated_at + EXPIRY_TIMES(rows[k].category) * 60 * 1000}}

\* checkExpiredReports() resumes after `await getReports()`: filters, takes
\* `now`, collects the expired ids and, if there are any, sends the bulk update
EvaluateSweep(s) ==
    /\ sweeps[s].pc = "fetched"
    /\ LET sw == sweeps[s]
           active == ActiveReports(sw.data)
           ids == ExpiredReportIds(active, clock)
       IN  IF sw.error \/ Len(active) = 0
           THEN Finish(s)
           ELSE IF ids # {}
                THEN /\ sweeps' = [sweeps EXCEPT ![s] =
                            [sw EXCEPT !.pc = "marking", !.data = <<>>,
                                       !.now = clock, !.ids = ids]]
                     /\ UNCHANGED begun
                ELSE Finish(s)
    /\ UNCHANGED <<relayVars, notifyVars, appVars, clock, calcVars, storeVars, viewVars, isRunning, intervalId, timers>>

\* the store applies the bulk update of SupabaseService.markReportsAsExpired
ApplyMarkExpired(s) ==
    /\ sweeps[s].pc = "marking"
    /\ reports' = markReportsAsExpired(reports, sweeps[s].ids, clock)
    /\ Publish(UpdateEvents(reports, sweeps[s].ids))
    /\ Finish(s)
    /\ UNCHANGED <<deletes, relayVars, notifyVars, appVars, clock, calcVars, isRunning, intervalId, timers>>

MarkExpiredFails_stops(s) ==
    /\ sweeps[s].pc = "marking"
    /\ Finish(s)
    /\ timers' = [timers EXCEPT ![sweeps[s].client] = {}]
    /\ intervalId' = [intervalId EXCEPT ![sweeps[s].client] = 0]
    /\ isRunning' = [isRunning EXCEPT ![sweeps[s].client] = FALSE]
    /\ UNCHANGED <<relayVars, notifyVars, appVars, clock, calcVars, storeVars, viewVars>>

\* the bulk update returns an error: thrown by the service's
\* markReportsAsExpired, caught and logged by checkExpiredReports
MarkExpiredFails(s) ==
    /\ sweeps[s].pc = "marking"
    /\ Finish(s)
    /\ UNCHANGED <<relayVars, notifyVars, appVars, clock, calcVars, storeVars, viewVars, isRunning, intervalId, timers>>

(***************************************************************************)
(* The local ordered view of a screen and the callback that feeds it.      *)
(* screen = "timeline": TimelineScreen (its own subscription and           *)
(* loadReports); screen = "hook": useRealtimeReportsState (the handlers    *)
(* given to useRealtimeReports).                                           *)
(***************************************************************************)
\* the page of TimelineScreen.loadReports (20 in the code), scaled to the
\* number of reports of the model
PageSize == 1

\* loadReports() calls begun by onRefresh and loadMore in one run of the model
MaxLoads == 1

NoTimeline == [offset |-> 0, hasMore |-> TRUE, loadingMore |-> FALSE, begun |-> 0]

Handlers == {"onNewReport", "onUpdateReport", "onDeleteReport"}

NoCalls(ids) == [h \in Handlers, r \in ids |-> 0]

Called(handler, id) == [calls EXCEPT ![handler, id] = @ + 1]

NotificationTypes == {"new", "update"}

NoNotified(ids) == [type \in NotificationTypes, r \in ids |-> 0]

\* the options useRealtimeReportsState gives useRealtimeReports: the three
\* handlers and nothing else, so currentUserId is undefined and
\* enableComprehensiveNotifications has its default
currentUserId == NULL

enableComprehensiveNotifications == TRUE

\* currentUserId && report.user_id === currentUserId
IsOwnReport(reportUserId) ==
    currentUserId # NULL /\ reportUserId = currentUserId

\* NotificationService.sendComprehensiveNotification(report, type) is called
\* after the handler, unless the report is the current user's own; only
\* useRealtimeReports calls it, TimelineScreen's callback does not
Notify(type, id) ==
    IF screen = "hook" /\ ~IsOwnReport(AuthorOf(id)) /\ enableComprehensiveNotifications
    THEN [notified EXCEPT ![type, id] = @ + 1]
    ELSE notified

ViewIdle ==
    /\ screen = "none"
    /\ feed = <<>>
    /\ published = 0
    /\ hydrations = <<>>
    /\ view = <<>>
    /\ timeline = NoTimeline
    /\ loads = <<>>
    /\ calls = NoCalls(ReportIds)
    /\ subscribed = FALSE
    /\ mounted = FALSE
    /\ currentUser = NULL
    /\ notified = NoNotified(ReportIds)

\* SupabaseService.getReportById: the report under the id, with the fields
\* the handlers read
getReportById(store, id) == [id |-> id, status |-> store[id].status]

InView(prev, id) == \E i \in DOMAIN prev : prev[i].id = id

Without(seq, k) ==
    [i \in 1..(Len(seq) - 1) |-> IF i < k THEN seq[i] ELSE seq[i + 1]]

handleNewReport_nodedup(prev, newReport) == <<newReport>> \o prev

\* setReports(prev => prev.some(r => r.id === newReport.id)
\*                        ? prev : [newReport, ...prev])
handleNewReport(prev, newReport) ==
    IF InView(prev, newReport.id) THEN prev ELSE <<newReport>> \o prev

\* setReports(prev => prev.map(report =>
\*     report.id === updatedReport.id ? updatedReport : report))
handleUpdateReport(prev, updatedReport) ==
    [i \in DOMAIN prev |->
        IF prev[i].id = updatedReport.id THEN updatedReport ELSE prev[i]]

\* setReports(prev => prev.filter(report => report.id !== reportId))
handleDeleteReport(prev, reportId) ==
    SelectSeq(prev, LAMBDA report : report.id # reportId)

\* TimelineScreen's UPDATE branch: an expired report is removed, any other
\* replaces the entry under payload.new.id
timelineUpdate(prev, payloadId, updatedReport) ==
    IF updatedReport.status = "expired"
    THEN SelectSeq(prev, LAMBDA report : report.id # updatedReport.id)
    ELSE [i \in DOMAIN prev |->
             IF prev[i].id = payloadId THEN updatedReport ELSE prev[i]]

\* TimelineScreen.loadReports, pagination: [...prev, ...uniqueNewReports]
appendUnique(prev, newReports) ==
    prev \o SelectSeq(newReports, LAMBDA r : ~InView(prev, r.id))

\* the lists the component that uses the hook passes to updateReports: the
\* rows of a query of the active reports, or a list that names one report
\* twice
CallerLists ==
    getActiveReports(reports, MaxReports, 0) \cup
    {<<getReportById(reports, r), getReportById(reports, r)>> : r \in Existing(reports)}

\* setReports(newReports), which useRealtimeReportsState returns
setReports(newReports) ==
    /\ screen = "hook"
    /\ mounted
    /\ view' = newReports
    /\ UNCHANGED <<relayVars, notifyVars, appVars, clock, calcVars, storeVars, sweeperVars,
                   screen, feed, published, hydrations, timeline, loads, calls>>

\* updateReports(newReports): setReports(newReports)
updateReports(newReports) == setReports(newReports)

\* the callback of an INSERT or UPDATE event at `await getReportById(...)`:
\* the query of the row is on its way
NewHydration(ev) ==
    [eventType |-> ev.eventType, id |-> ev.id, pc |-> "fetching",
     data |-> [id |-> ev.id, status |-> "none"], error |-> FALSE]

\* the channel invokes the callback with the next event: an INSERT or UPDATE
\* awaits getReportById, a DELETE is handled at once.  With `again` the
\* channel delivers the same event once more later.
Deliver(again) ==
    /\ subscribed
    /\ feed # <<>>
    /\ IF again
       THEN /\ published < MaxEvents
            /\ published' = published + 1
            /\ UNCHANGED feed
       ELSE /\ feed' = Tail(feed)
            /\ UNCHANGED published
    /\ IF Head(feed).eventType = "DELETE"
       THEN /\ view' = handleDeleteReport(view, Head(feed).id)
            /\ calls' = Called("onDeleteReport", Head(feed).id)
            /\ UNCHANGED hydrations
       ELSE /\ hydrations' = Append(hydrations, NewHydration(Head(feed)))
            /\ UNCHANGED <<view, calls>>
    /\ UNCHANGED <<relayVars, notifyVars, appVars, clock, calcVars, storeVars, sweeperVars, screen, timeline, loads>>

\* the store answers the first query of getReportById at position h with the
\* row as it is now; no row under the id is an error.  The lookups of the
\* author and of the media files follow before the callback resumes.
FetchReportById(h) ==
    /\ h \in DOMAIN hydrations
    /\ hydrations[h].pc = "fetching"
    /\ hydrations' = [hydrations EXCEPT ![h] =
           IF hydrations[h].id \in Existing(reports)
           THEN [@ EXCEPT !.pc = "fetched",
                          !.data = getReportById(reports, hydrations[h].id)]
           ELSE [@ EXCEPT !.pc = "fetched", !.error = TRUE]]
    /\ UNCHANGED <<relayVars, notifyVars, appVars, clock, calcVars, storeVars, sweeperVars,
                   screen, feed, published, view, timeline, loads, calls>>

HydrateFails_stops(h) ==
    /\ h \in DOMAIN hydrations
    /\ hydrations' = Without(hydrations, h)
    /\ subscribed' = FALSE
    /\ UNCHANGED <<mounted, currentUser, notified, notifyVars, appVars, clock, calcVars, storeVars,
                   sweeperVars, screen, feed, published, view, timeline, loads, calls>>

\* a request of getReportById fails (the query of the row, or the lookup of
\* the author): the callback logs and the event is dropped
HydrateFails(h) ==
    /\ h \in DOMAIN hydrations
    /\ hydrations' = Without(hydrations, h)
    /\ UNCHANGED <<relayVars, notifyVars, appVars, clock, calcVars, storeVars, sweeperVars,
                   screen, feed, published, view, timeline, loads, calls>>

NewLoad(isRefresh, more) ==
    [isRefresh |-> isRefresh, more |-> more,
     currentOffset |-> IF isRefresh THEN 0 ELSE timeline.offset,
     pc |-> "fetching", data |-> <<>>]

\* TimelineScreen.onRefresh: setOffset(0), loadReports(true)
onRefresh ==
    /\ screen = "timeline"
    /\ timeline.begun < MaxLoads
    /\ timeline' = [timeline EXCEPT !.offset = 0, !.begun = @ + 1]
    /\ loads' = Append(loads, NewLoad(TRUE, FALSE))
    /\ UNCHANGED <<relayVars, notifyVars, appVars, clock, calcVars, storeVars, sweeperVars,
                   screen, feed, published, hydrations, view, calls>>

\* TimelineScreen.loadMore: one at a time, and only while hasMore
loadMore ==
    /\ screen = "timeline"
    /\ timeline.begun < MaxLoads
    /\ ~(timeline.loadingMore \/ ~timeline.hasMore)
    /\ timeline' = [timeline EXCEPT !.loadingMore = TRUE, !.begun = @ + 1]
    /\ loads' = Append(loads, NewLoad(FALSE, TRUE))
    /\ UNCHANGED <<relayVars, notifyVars, appVars, clock, calcVars, storeVars, sweeperVars,
                   screen, feed, published, hydrations, view, calls>>

\* the store answers the query of loadReports: a page of the active rows as
\* they are now
LoadFetch(l) ==
    /\ l \in DOMAIN loads
    /\ loads[l].pc = "fetching"
    /\ \E data \in getActiveReports(reports, PageSize, loads[l].currentOffset) :
           loads' = [loads EXCEPT ![l] = [@ EXCEPT !.pc = "fetched", !.data = data]]
    /\ UNCHANGED <<relayVars, notifyVars, appVars, clock, calcVars, storeVars, sweeperVars,
                   screen, feed, published, hydrations, view, timeline, calls>>

\* the query fails: loadReports logs and returns; loadMore resets loadingMore
LoadFails(l) ==
    /\ l \in DOMAIN loads
    /\ loads[l].pc = "fetching"
    /\ loads' = Without(loads, l)
    /\ timeline' = [timeline EXCEPT
                       !.loadingMore = IF loads[l].more THEN FALSE ELSE @]
    /\ UNCHANGED <<relayVars, notifyVars, appVars, clock, calcVars, storeVars, sweeperVars,
                   screen, feed, published, hydrations, view, calls>>

\* loadReports resumes with the rows: a refresh replaces the view, a page is
\* appended without the ids the view already holds
LoadApply(l) ==
    /\ l \in DOMAIN loads
    /\ loads[l].pc = "fetched"
    /\ LET newReports == loads[l].data
       IN  /\ view' = IF loads[l].isRefresh
                      THEN newReports
                      ELSE appendUnique(view, newReports)
           /\ timeline' = [timeline EXCEPT
                  !.offset = IF loads[l].isRefresh THEN PageSize ELSE @ + PageSize,
                  !.hasMore = (Len(newReports) = PageSize),
                  !.loadingMore = IF loads[l].more THEN FALSE ELSE @]
    /\ loads' = Without(loads, l)
    /\ UNCHANGED <<relayVars, notifyVars, appVars, clock, calcVars, storeVars, sweeperVars,
                   screen, feed, published, hydrations, calls>>

(***************************************************************************)
(* The Notification Preference & Delivery Coordinator:                     *)
(* NotificationService.sendComprehensiveNotification and its gates.  The   *)
(* preferences are the record kept in AsyncStorage; a frequency window is  *)
(* measured from lastNotificationTimes, the in-memory map of the class.    *)
(* A time of day 'HH:MM' is the pair <<HH, MM>> that                       *)
(* split(':').map(Number) makes of it.  Local time is UTC.                 *)
(***************************************************************************)
Frequencies == {"immediate", "every_5min", "every_15min", "hourly", "daily"}

DEFAULT_SETTINGS ==
    [enabled |-> TRUE, frequency |-> "immediate", show_system |-> TRUE]

DEFAULT_GLOBAL_SETTINGS ==
    [master_enabled |-> TRUE,
     quiet_hours |-> [enabled |-> FALSE, start_time |-> <<22, 0>>,
                      end_time |-> <<7, 0>>, days |-> 0..6]]

mapCategoryToPreferenceKey(category) ==
    CASE category = "police_checkpoint" -> "police_checkpoints"
      [] category = "accident" -> "accidents"
      [] category = "road_hazard" -> "road_hazards"
      [] category = "traffic_jam" -> "traffic_jams"
      [] category = "weather_alert" -> "weather_alerts"
      [] category = "general" -> "general_alerts"

getDefaultNotificationPreferences ==
    [k \in {mapCategoryToPreferenceKey(c) : c \in Categories}
           \cup {"global_settings"} |->
        IF k = "global_settings" THEN DEFAULT_GLOBAL_SETTINGS
                                 ELSE DEFAULT_SETTINGS]

\* Date.getDay(), getHours(), getMinutes() of an epoch value; 1 January 1970
\* was a Thursday (day 4)
getDay(ms) == ((ms \div 86400000) + 4) % 7

getHours(ms) == (ms % 86400000) \div 3600000

getMinutes(ms) == ((ms % 86400000) \div 60000) % 60

isInQuietHours_and(quietHours, now) ==
    LET currentTime == getHours(now) * 60 + getMinutes(now)
        startTime == quietHours.start_time[1] * 60 + quietHours.start_time[2]
        endTime == quietHours.end_time[1] * 60 + quietHours.end_time[2]
    IN  IF ~quietHours.enabled THEN FALSE
        ELSE IF getDay(now) \notin quietHours.days THEN FALSE
        ELSE currentTime >= startTime /\ currentTime <= endTime

isInQuietHours(quietHours, now) ==
    LET currentDay == getDay(now)
        currentTime == getHours(now) * 60 + getMinutes(now)
        startTime == quietHours.start_time[1] * 60 + quietHours.start_time[2]
        endTime == quietHours.end_time[1] * 60 + quietHours.end_time[2]
    IN  IF ~quietHours.enabled THEN FALSE
        ELSE IF currentDay \notin quietHours.days THEN FALSE
        ELSE IF startTime > endTime
             THEN currentTime >= startTime \/ currentTime <= endTime
             ELSE currentTime >= startTime /\ currentTime <= endTime

\* this.lastNotificationTimes.get(category) || 0
LastTime(lastTimes, category) ==
    IF category \in DOMAIN lastTimes THEN lastTimes[category] ELSE 0

shouldSendNotification_after(category, frequency, lastTimes, now) ==
    LET timeDiff == now - LastTime(lastTimes, category)
    IN  CASE frequency = "immediate" -> TRUE
          [] frequency = "every_5min" -> timeDiff > 5 * 60 * 1000
          [] frequency = "every_15min" -> timeDiff > 15 * 60 * 1000
          [] frequency = "hourly" -> timeDiff > 60 * 60 * 1000
          [] frequency = "daily" -> timeDiff > 24 * 60 * 60 * 1000
          [] OTHER -> TRUE

shouldSendNotification(category, frequency, lastTimes, now) ==
    LET lastTime == LastTime(lastTimes, category)
        timeDiff == now - lastTime
    IN  CASE frequency = "immediate" -> TRUE
          [] frequency = "every_5min" -> timeDiff >= 5 * 60 * 1000
          [] frequency = "every_15min" -> timeDiff >= 15 * 60 * 1000
          [] frequency = "hourly" -> timeDiff >= 60 * 60 * 1000
          [] frequency = "daily" -> timeDiff >= 24 * 60 * 60 * 1000
          [] OTHER -> TRUE

\* the gates of sendComprehensiveNotification in their order: the first that
\* fails ends the call
Gate_noquiet(category, prefs, lastTimes, now) ==
    LET preferenceKey == mapCategoryToPreferenceKey(category)
    IN  IF preferenceKey \notin DOMAIN prefs THEN "no_settings"
        ELSE IF \/ ~prefs.global_settings.master_enabled
                \/ ~prefs[preferenceKey].enabled THEN "disabled"
        ELSE IF ~shouldSendNotification(category, prefs[preferenceKey].frequency,
                                        lastTimes, now) THEN "throttled"
        ELSE "pass"

Gate(category, prefs, lastTimes, now) ==
    LET preferenceKey == mapCategoryToPreferenceKey(category)
    IN  IF preferenceKey \notin DOMAIN prefs THEN "no_settings"
        ELSE IF \/ ~prefs.global_settings.master_enabled
                \/ ~prefs[preferenceKey].enabled THEN "disabled"
        ELSE IF isInQuietHours(prefs.global_settings.quiet_hours, now)
             THEN "quiet_hours"
        ELSE IF ~shouldSendNotification(category, prefs[preferenceKey].frequency,
                                        lastTimes, now) THEN "throttled"
        ELSE "pass"

Calls == DOMAIN sending

MaxStored == 2

\* `prefs` holds what getNotificationPreferences() read, until the gates
NoCall == [pc |-> "idle", category |-> "general",
           prefs |-> getDefaultNotificationPreferences, show_system |-> FALSE,
           outcome |-> "none", id |-> 0, created_at |-> 0, existing |-> <<>>]

\* the service before any call, with the given slots for the calls of a run
NotifyReady(slots) ==
    /\ preferences = getDefaultNotificationPreferences
    /\ lastNotificationTimes = [c \in {} |-> 0]
    /\ notifications = [c \in Categories |-> <<>>]
    /\ issued = 0
    /\ returned = {}
    /\ dispatched = [c \in Categories |-> 0]
    /\ sending = [c \in slots |-> NoCall]

NotifyIdle == NotifyReady({})

\* the call, up to `await this.getNotificationPreferences()`: the read of the
\* stored preferences is on its way
BeginCall(c, category) ==
    /\ sending[c].pc \in {"idle", "done"}
    /\ issued < MaxStored
    /\ sending' = [sending EXCEPT ![c] = [NoCall EXCEPT !.pc = "prefs",
                                                        !.category = category]]
    /\ UNCHANGED <<preferences, lastNotificationTimes, notifications, issued,
                   returned, dispatched>>

\* sendComprehensiveNotification(report, type), called by a screen's callback
sendComprehensiveNotification(c, category) ==
    /\ BeginCall(c, category)
    /\ UNCHANGED <<relayVars, appVars, clock, calcVars, storeVars, sweeperVars, viewVars>>

\* AsyncStorage.getItem answers getNotificationPreferences(): the stored
\* preferences as they are now (the defaults stand for a store that holds none)
ReadPreferences(c) ==
    /\ sending[c].pc = "prefs"
    /\ sending' = [sending EXCEPT ![c] = [@ EXCEPT !.pc = "gates",
                                                   !.prefs = preferences]]
    /\ UNCHANGED <<preferences, lastNotificationTimes, notifications, issued,
                   returned, dispatched,
                   relayVars, appVars, clock, calcVars, storeVars, sweeperVars, viewVars>>

\* AsyncStorage.getItem fails: getNotificationPreferences() logs and returns
\* the default preferences
ReadPreferencesFails(c) ==
    /\ sending[c].pc = "prefs"
    /\ sending' = [sending EXCEPT ![c] =
           [@ EXCEPT !.pc = "gates", !.prefs = getDefaultNotificationPreferences]]
    /\ UNCHANGED <<preferences, lastNotificationTimes, notifications, issued,
                   returned, dispatched,
                   relayVars, appVars, clock, calcVars, storeVars, sweeperVars, viewVars>>

\* the call resumes with the preferences it read; the gates are evaluated at
\* this instant; a call that passes calls NotificationStorage.storeNotification,
\* which gives the record its id and created_at and awaits
\* getNotificationsByCategory
CheckGates(c) ==
    /\ sending[c].pc = "gates"
    /\ LET category == sending[c].category
           prefs == sending[c].prefs
           g == Gate(category, prefs, lastNotificationTimes, clock)
       IN  IF g = "pass"
           THEN /\ sending' = [sending EXCEPT ![c] =
                       [@ EXCEPT !.pc = "store",
                                 !.prefs = getDefaultNotificationPreferences,
                                 !.show_system =
                                     prefs[mapCategoryToPreferenceKey(category)].show_system,
                                 !.id = issued + 1,
                                 !.created_at = clock]]
                /\ issued' = issued + 1
           ELSE /\ sending' = [sending EXCEPT ![c] =
                       [@ EXCEPT !.pc = "done", !.outcome = g,
                                 !.prefs = getDefaultNotificationPreferences]]
                /\ UNCHANGED issued
    /\ UNCHANGED <<preferences, lastNotificationTimes, notifications, returned,
                   dispatched,
                   relayVars, appVars, clock, calcVars, storeVars, sweeperVars, viewVars>>

\* getNotificationsByCategory resolves with the list of the category as it
\* is stored now
ReadNotifications(c) ==
    /\ sending[c].pc = "store"
    /\ sending' = [sending EXCEPT ![c] =
           [@ EXCEPT !.pc = "write",
                     !.existing = notifications[sending[c].category]]]
    /\ UNCHANGED <<preferences, lastNotificationTimes, notifications, issued,
                   returned, dispatched,
                   relayVars, appVars, clock, calcVars, storeVars, sweeperVars, viewVars>>

\* AsyncStorage.getItem fails: getNotificationsByCategory logs and returns []
ReadNotificationsFails(c) ==
    /\ sending[c].pc = "store"
    /\ sending' = [sending EXCEPT ![c] = [@ EXCEPT !.pc = "write"]]
    /\ UNCHANGED <<preferences, lastNotificationTimes, notifications, issued,
                   returned, dispatched,
                   relayVars, appVars, clock, calcVars, storeVars, sweeperVars, viewVars>>

\* [storedNotification, ...categoryNotifications]
updatedNotifications(storedNotification, categoryNotifications) ==
    <<storedNotification>> \o categoryNotifications

\* the record of a call, as storeNotification made it
StoredNotification(call) ==
    [id |-> call.id, created_at |-> call.created_at, status |-> "unread"]

\* storeNotificationsByCategory writes the list and storeNotification
\* returns the record; without show_system the call ends by recording the
\* send time
StoreNotification(c) ==
    /\ sending[c].pc = "write"
    /\ notifications' = [notifications EXCEPT ![sending[c].category] =
           updatedNotifications(StoredNotification(sending[c]), sending[c].existing)]
    /\ returned' = returned \cup {sending[c].id}
    /\ IF sending[c].show_system
       THEN /\ sending' = [sending EXCEPT ![c] =
                   [@ EXCEPT !.pc = "dispatch", !.existing = <<>>]]
            /\ UNCHANGED lastNotificationTimes
       ELSE /\ sending' = [sending EXCEPT ![c] =
                   [@ EXCEPT !.pc = "done", !.outcome = "sent", !.existing = <<>>]]
            /\ lastNotificationTimes' =
                   [x \in DOMAIN lastNotificationTimes \cup {sending[c].category} |->
                       IF x = sending[c].category THEN clock
                       ELSE lastNotificationTimes[x]]
    /\ UNCHANGED <<preferences, issued, dispatched,
                   relayVars, appVars, clock, calcVars, storeVars, sweeperVars, viewVars>>

\* AsyncStorage.setItem fails: storeNotification throws, the catch of
\* sendComprehensiveNotification logs
StoreNotificationFails(c) ==
    /\ sending[c].pc = "write"
    /\ sending' = [sending EXCEPT ![c] =
           [@ EXCEPT !.pc = "done", !.outcome = "error", !.existing = <<>>]]
    /\ UNCHANGED <<preferences, lastNotificationTimes, notifications, issued,
                   returned, dispatched,
                   relayVars, appVars, clock, calcVars, storeVars, sweeperVars, viewVars>>

SendSystemNotification_removes(c) ==
    /\ sending[c].pc = "dispatch"
    /\ \E scheduled \in BOOLEAN :
           /\ dispatched' = IF scheduled
                            THEN [dispatched EXCEPT ![sending[c].category] = @ + 1]
                            ELSE dispatched
           /\ notifications' =
                  IF scheduled THEN notifications
                  ELSE [notifications EXCEPT ![sending[c].category] =
                           SelectSeq(@, LAMBDA n : n.id # sending[c].id)]
    /\ lastNotificationTimes' =
           [x \in DOMAIN lastNotificationTimes \cup {sending[c].category} |->
               IF x = sending[c].category THEN clock
               ELSE lastNotificationTimes[x]]
    /\ sending' = [sending EXCEPT ![c].pc = "done", ![c].outcome = "sent"]
    /\ UNCHANGED <<preferences, issued, returned,
                   relayVars, appVars, clock, calcVars, storeVars, sweeperVars, viewVars>>

\* sendSystemNotification returns, having scheduled the notification or
\* having caught the failure to; the send time is recorded
SendSystemNotification(c) ==
    /\ sending[c].pc = "dispatch"
    /\ \E scheduled \in BOOLEAN :
           dispatched' = IF scheduled
                         THEN [dispatched EXCEPT ![sending[c].category] = @ + 1]
                         ELSE dispatched
    /\ lastNotificationTimes' =
           [x \in DOMAIN lastNotificationTimes \cup {sending[c].category} |->
               IF x = sending[c].category THEN clock
               ELSE lastNotificationTimes[x]]
    /\ sending' = [sending EXCEPT ![c].pc = "done", ![c].outcome = "sent"]
    /\ UNCHANGED <<preferences, notifications, issued, returned,
                   relayVars, appVars, clock, calcVars, storeVars, sweeperVars, viewVars>>

\* the system notifications of one category the model lets
\* scheduleLocalNotification add to
MaxScheduled == 1

\* NotificationService.scheduleLocalNotification(title, body, category, data):
\* Notifications.scheduleNotificationAsync is called at once, whatever the
\* preferences and the last send time of the category, and neither is written
\* (a call whose request is rejected changes nothing)
scheduleLocalNotification(category) ==
    /\ dispatched[category] < MaxScheduled
    /\ dispatched' = [dispatched EXCEPT ![category] = @ + 1]
    /\ UNCHANGED <<preferences, lastNotificationTimes, notifications, issued, returned, sending,
                   relayVars, appVars, clock, calcVars, storeVars, sweeperVars, viewVars>>

(***************************************************************************)
(* The callback of the subscription resumes after getReportById.           *)
(***************************************************************************)
\* the callback goes on to sendComprehensiveNotification(report, type): the
\* hook, for a report that is not the current user's own
Notifies(id) ==
    screen = "hook" /\ ~IsOwnReport(AuthorOf(id)) /\ enableComprehensiveNotifications

\* the slot of the model that holds the next sendComprehensiveNotification call
FreeCall == CHOOSE c \in Calls :
                /\ sending[c].pc \in {"idle", "done"}
                /\ \A d \in Calls : sending[d].pc \in {"idle", "done"} => c <= d

\* getReportById returns to the callback at position h: after an error the
\* event is dropped; otherwise the handler of the event runs with the report
\* that was read (the setReports of an unmounted component changes nothing)
\* and, in the hook, sendComprehensiveNotification is called and awaited
Hydrate(h) ==
    /\ h \in DOMAIN hydrations
    /\ hydrations[h].pc = "fetched"
    /\ hydrations' = Without(hydrations, h)
    /\ LET ev == hydrations[h]
           report == ev.data
       IN  IF ev.error
           THEN UNCHANGED <<view, calls, notified, notifyVars>>
           ELSE /\ IF ev.eventType = "INSERT"
                   THEN /\ view' = IF mounted THEN handleNewReport(view, report)
                                   ELSE view
                        /\ calls' = Called("onNewReport", ev.id)
                        /\ notified' = Notify("new", ev.id)
                   ELSE /\ view' = IF ~mounted THEN view
                                   ELSE IF screen = "timeline"
                                   THEN timelineUpdate(view, ev.id, report)
                                   ELSE handleUpdateReport(view, report)
                        /\ calls' = Called("onUpdateReport", ev.id)
                        /\ notified' = Notify("update", ev.id)
                /\ IF Notifies(ev.id)
                   THEN /\ \E c \in Calls : sending[c].pc \in {"idle", "done"}
                        /\ BeginCall(FreeCall, SubmittedCategory(ev.id))
                   ELSE UNCHANGED notifyVars
    /\ UNCHANGED <<subscribed, mounted, currentUser, appVars, clock, calcVars, storeVars,
                   sweeperVars, screen, feed, published, timeline, loads>>

(***************************************************************************)
(* The stored preferences change: saveNotificationPreferences writes a     *)
(* whole record, updateCategoryPreferences and updateGlobalSettings read   *)
(* the stored record, merge the given settings into one of its keys and    *)
(* write the result, resetPreferencesToDefault writes the defaults.        *)
(***************************************************************************)
\* what the preference calls leave alone
notSettingsVars ==
    <<offlineVars, authVars, nextTick, relayVars, clock, calcVars, storeVars,
      sweeperVars, viewVars>>

\* {} as a Partial<...>
NoSettings == [f \in {} |-> TRUE]

\* { ...old, ...settings }
Spread(old, settings) ==
    [f \in DOMAIN old \cup DOMAIN settings |->
        IF f \in DOMAIN settings THEN settings[f] ELSE old[f]]

\* preferences[key] = { ...preferences[key], ...settings }
MergedPreferences(prefs, key, settings) ==
    [k \in DOMAIN prefs \cup {key} |->
        IF k = key
        THEN Spread(IF key \in DOMAIN prefs THEN prefs[key] ELSE NoSettings, settings)
        ELSE prefs[k]]

NoUpdate == [pc |-> "idle", key |-> "global_settings", settings |-> NoSettings,
             prefs |-> getDefaultNotificationPreferences]

\* updateCategoryPreferences(category, settings), up to
\* `await this.getNotificationPreferences()`
updateCategoryPreferences(u, category, settings) ==
    /\ updates[u].pc = "idle"
    /\ updates' = [updates EXCEPT ![u] =
           [NoUpdate EXCEPT !.pc = "read",
                            !.key = mapCategoryToPreferenceKey(category),
                            !.settings = settings]]
    /\ UNCHANGED <<storageOps, removed, notifyVars, notSettingsVars>>

\* updateGlobalSettings(settings), up to
\* `await this.getNotificationPreferences()`
updateGlobalSettings(u, settings) ==
    /\ updates[u].pc = "idle"
    /\ updates' = [updates EXCEPT ![u] =
           [NoUpdate EXCEPT !.pc = "read", !.key = "global_settings",
                            !.settings = settings]]
    /\ UNCHANGED <<storageOps, removed, notifyVars, notSettingsVars>>

\* the read of the update resolves with the stored preferences; the settings
\* are merged into its key and saveNotificationPreferences is awaited
MergePreferences(u) ==
    /\ updates[u].pc = "read"
    /\ updates' = [updates EXCEPT ![u] =
           [@ EXCEPT !.pc = "save", !.settings = NoSettings,
                     !.prefs = MergedPreferences(preferences, updates[u].key,
                                                 updates[u].settings)]]
    /\ UNCHANGED <<storageOps, removed, notifyVars, notSettingsVars>>

\* AsyncStorage.getItem fails: the settings are merged into the defaults
MergePreferencesFails(u) ==
    /\ updates[u].pc = "read"
    /\ updates' = [updates EXCEPT ![u] =
           [@ EXCEPT !.pc = "save", !.settings = NoSettings,
                     !.prefs = MergedPreferences(getDefaultNotificationPreferences,
                                                 updates[u].key, updates[u].settings)]]
    /\ UNCHANGED <<storageOps, removed, notifyVars, notSettingsVars>>

\* AsyncStorage.setItem of the update's saveNotificationPreferences resolves
SavePreferences(u) ==
    /\ updates[u].pc = "save"
    /\ preferences' = updates[u].prefs
    /\ updates' = [updates EXCEPT ![u] = NoUpdate]
    /\ UNCHANGED <<lastNotificationTimes, notifications, issued, returned,
                   dispatched, sending, storageOps, removed, notSettingsVars>>

\* AsyncStorage.setItem fails: the update rethrows, nothing is stored
SavePreferencesFails(u) ==
    /\ updates[u].pc = "save"
    /\ updates' = [updates EXCEPT ![u] = NoUpdate]
    /\ UNCHANGED <<storageOps, removed, notifyVars, notSettingsVars>>

\* saveNotificationPreferences(prefs): the record replaces the stored one
\* (a setItem that fails leaves everything as it is)
saveNotificationPreferences(prefs) ==
    /\ preferences' = prefs
    /\ UNCHANGED <<lastNotificationTimes, notifications, issued, returned,
                   dispatched, sending, settingsVars, notSettingsVars>>

\* resetPreferencesToDefault()
resetPreferencesToDefault ==
    saveNotificationPreferences(getDefaultNotificationPreferences)

(***************************************************************************)
(* NotificationStorage's calls that rewrite or remove the stored lists:    *)
(* each goes through the categories of FOLDER_STRUCTURE in their order,    *)
(* awaiting the read of a category's list and then the write of it.        *)
(***************************************************************************)
CategoryOrder ==
    <<"police_checkpoint", "accident", "road_hazard", "traffic_jam",
      "weather_alert", "general">>

NoOp == [pc |-> "idle", op |-> "none", id |-> 0, status |-> "unread",
         cutoff |-> 0, next |-> 0, data |-> <<>>, gone |-> {}]

\* the ids of a stored list
NotificationIds(list) == {list[i].id : i \in DOMAIN list}

\* what the storage calls leave alone
notStorageVars ==
    <<updates, preferences, lastNotificationTimes, issued, returned,
      dispatched, sending, notSettingsVars>>

\* a call begins: its loop is at the first category
BeginOp(o, rec) ==
    /\ storageOps[o].pc = "idle"
    /\ storageOps' = [storageOps EXCEPT ![o] = rec]
    /\ UNCHANGED <<notifications, removed, notStorageVars>>

\* updateNotificationStatus(notificationId, status)
updateNotificationStatus(o, notificationId, status) ==
    BeginOp(o, [NoOp EXCEPT !.pc = "read", !.op = "updateNotificationStatus",
                            !.id = notificationId, !.status = status, !.next = 1])

\* deleteNotification(notificationId)
deleteNotification(o, notificationId) ==
    BeginOp(o, [NoOp EXCEPT !.pc = "read", !.op = "deleteNotification",
                            !.id = notificationId, !.next = 1])

\* markAllAsRead()
markAllAsRead(o) ==
    BeginOp(o, [NoOp EXCEPT !.pc = "read", !.op = "markAllAsRead", !.next = 1])

\* cleanupOldNotifications(daysToKeep): cutoffDate is now less the days
cleanupOldNotifications(o, daysToKeep) ==
    BeginOp(o, [NoOp EXCEPT !.pc = "read", !.op = "cleanupOldNotifications",
                            !.cutoff = clock - daysToKeep * 86400000, !.next = 1])

\* clearAllNotifications()
clearAllNotifications(o) ==
    BeginOp(o, [NoOp EXCEPT !.pc = "remove", !.op = "clearAllNotifications",
                            !.next = 1])

\* the loop goes on to the next category, or the call ends after the last
Continue(rec) ==
    IF rec.next < Len(CategoryOrder)
    THEN [rec EXCEPT !.next = @ + 1, !.data = <<>>, !.gone = {},
                     !.pc = IF rec.op = "clearAllNotifications" THEN "remove"
                            ELSE "read"]
    ELSE NoOp

\* notifications[notificationIndex].status = status, at the first index found
WithStatus(list, notificationId, status) ==
    LET notificationIndex ==
            CHOOSE i \in DOMAIN list :
                /\ list[i].id = notificationId
                /\ \A j \in 1..(i - 1) : list[j].id # notificationId
    IN  [list EXCEPT ![notificationIndex].status = status]

\* the call, given the list its read of the category returned: the list it
\* goes on to write, or the next turn of its loop
AfterRead(rec, list) ==
    CASE rec.op = "updateNotificationStatus" ->
             IF rec.id \in NotificationIds(list)
             THEN [rec EXCEPT !.pc = "write",
                              !.data = WithStatus(list, rec.id, rec.status)]
             ELSE Continue(rec)
      [] rec.op = "deleteNotification" ->
             LET filteredNotifications == SelectSeq(list, LAMBDA n : n.id # rec.id)
             IN  IF Len(filteredNotifications) # Len(list)
                 THEN [rec EXCEPT !.pc = "write", !.data = filteredNotifications,
                                  !.gone = {rec.id}]
                 ELSE Continue(rec)
      [] rec.op = "cleanupOldNotifications" ->
             LET filteredNotifications ==
                     SelectSeq(list, LAMBDA n : n.created_at > rec.cutoff)
             IN  IF Len(list) - Len(filteredNotifications) > 0
                 THEN [rec EXCEPT !.pc = "write", !.data = filteredNotifications,
                                  !.gone = NotificationIds(list) \
                                           NotificationIds(filteredNotifications)]
                 ELSE Continue(rec)
      [] rec.op = "markAllAsRead" ->
             [rec EXCEPT !.pc = "write",
                         !.data = [i \in DOMAIN list |->
                                      [list[i] EXCEPT !.status = "read"]]]

\* getNotificationsByCategory resolves with the stored list of the category
ReadCategory(o) ==
    /\ storageOps[o].pc = "read"
    /\ storageOps' = [storageOps EXCEPT ![o] =
           AfterRead(storageOps[o], notifications[CategoryOrder[storageOps[o].next]])]
    /\ UNCHANGED <<notifications, removed, notStorageVars>>

\* AsyncStorage.getItem fails: getNotificationsByCategory logs and returns []
ReadCategoryFails(o) ==
    /\ storageOps[o].pc = "read"
    /\ storageOps' = [storageOps EXCEPT ![o] = AfterRead(storageOps[o], <<>>)]
    /\ UNCHANGED <<notifications, removed, notStorageVars>>

\* storeNotificationsByCategory writes the list; updateNotificationStatus
\* and deleteNotification return, the others go on with their loop
WriteCategory(o) ==
    /\ storageOps[o].pc = "write"
    /\ notifications' = [notifications EXCEPT
           ![CategoryOrder[storageOps[o].next]] = storageOps[o].data]
    /\ removed' = removed \cup storageOps[o].gone
    /\ storageOps' = [storageOps EXCEPT ![o] =
           IF storageOps[o].op \in {"updateNotificationStatus", "deleteNotification"}
           THEN NoOp
           ELSE Continue(storageOps[o])]
    /\ UNCHANGED notStorageVars

\* AsyncStorage.setItem fails: storeNotificationsByCategory throws and the
\* call ends in its catch
WriteCategoryFails(o) ==
    /\ storageOps[o].pc = "write"
    /\ storageOps' = [storageOps EXCEPT ![o] = NoOp]
    /\ UNCHANGED <<notifications, removed, notStorageVars>>

\* AsyncStorage.removeItem of the category's key resolves
ClearCategory(o) ==
    /\ storageOps[o].pc = "remove"
    /\ notifications' = [notifications EXCEPT
           ![CategoryOrder[storageOps[o].next]] = <<>>]
    /\ removed' = removed \cup
           NotificationIds(notifications[CategoryOrder[storageOps[o].next]])
    /\ storageOps' = [storageOps EXCEPT ![o] = Continue(storageOps[o])]
    /\ UNCHANGED notStorageVars

\* AsyncStorage.removeItem fails: clearAllNotifications rethrows
ClearCategoryFails(o) ==
    /\ storageOps[o].pc = "remove"
    /\ storageOps' = [storageOps EXCEPT ![o] = NoOp]
    /\ UNCHANGED <<notifications, removed, notStorageVars>>

(***************************************************************************)
(* OfflineNotificationService: the pending queue and the failed list in    *)
(* AsyncStorage, sendNotificationWithOfflineSupport() with its private     *)
(* queueNotification(), the processQueuedNotifications() run,              *)
(* retryFailedNotifications() and clearAllQueues().  A send is the awaited *)
(* call of NotificationService.sendComprehensiveNotification, which        *)
(* catches what it throws: it resolves always, so the catch blocks of the  *)
(* run and of sendNotificationWithOfflineSupport, and with them the        *)
(* queueNotification of that catch block, scheduleRetry and                *)
(* storeFailedNotifications, are never entered, no retry timer is ever set *)
(* and nothing writes the failed list.  A QueuedNotification is its id,    *)
(* retryCount and maxRetries; its report is a police_checkpoint.           *)
(***************************************************************************)
MAX_RETRIES == 3

\* OfflineNotificationService.isOnline: true from the start, and every
\* assignment of the service (both in initialize()) sets it to true
isOnline == TRUE

\* notifications queued in one run of the model
MaxQueued == 2

\* sends of one queued notification in one run of the model
MaxAttempts == 4

QueuedNotification(id) ==
    [id |-> id, retryCount |-> 0, maxRetries |-> MAX_RETRIES]

NoRun == [pc |-> "idle", queue |-> <<>>, next |-> 0, processedIds |-> {},
          call |-> 0]

NoQueueing == [pc |-> "idle", queue |-> <<>>]

NoHousekeeping == [op |-> "none", pc |-> "idle"]

\* what the service's storage steps leave alone
notOfflineVars ==
    <<authVars, nextTick, settingsVars, relayVars, notifyVars, clock, calcVars,
      storeVars, sweeperVars, viewVars>>

\* queueNotification(report, type), up to `await this.getQueuedNotifications()`;
\* the function is private, sendNotificationWithOfflineSupport is its caller
queueNotification(q) ==
    /\ queueing[q].pc = "idle"
    /\ Cardinality(DOMAIN attempts)
           + Cardinality({x \in DOMAIN queueing : queueing[x].pc = "reading"})
       < MaxQueued
    /\ queueing' = [queueing EXCEPT ![q] = [NoQueueing EXCEPT !.pc = "reading"]]
    /\ UNCHANGED <<queue, failed, run, housekeeping, attempts>>
    /\ UNCHANGED notOfflineVars

\* sendNotificationWithOfflineSupport(report, type): online, it awaits
\* sendComprehensiveNotification and returns; offline, it awaits
\* queueNotification
sendNotificationWithOfflineSupport(c, category) ==
    IF isOnline
    THEN /\ run.call # c
         /\ sendComprehensiveNotification(c, category)
    ELSE \E q \in DOMAIN queueing : queueNotification(q)

\* the call, given the list its read returned: a new QueuedNotification is
\* pushed to it (the queue of the model stays below MAX_QUEUE_SIZE) and
\* AsyncStorage.setItem is awaited
PushQueued(q, list) ==
    LET id == Cardinality(DOMAIN attempts) + 1
    IN  /\ queueing' = [queueing EXCEPT ![q] =
               [pc |-> "writing", queue |-> Append(list, QueuedNotification(id))]]
        /\ attempts' = [x \in DOMAIN attempts \cup {id} |->
                           IF x = id THEN 0 ELSE attempts[x]]
        /\ UNCHANGED <<queue, failed, run, housekeeping>>
        /\ UNCHANGED notOfflineVars

\* getQueuedNotifications resolves with the stored queue
QueueRead(q) ==
    /\ queueing[q].pc = "reading"
    /\ PushQueued(q, queue)

\* AsyncStorage.getItem fails: getQueuedNotifications logs and returns []
QueueReadFails(q) ==
    /\ queueing[q].pc = "reading"
    /\ PushQueued(q, <<>>)

\* the list of the call is written
QueueWrite(q) ==
    /\ queueing[q].pc = "writing"
    /\ queue' = queueing[q].queue
    /\ queueing' = [queueing EXCEPT ![q] = NoQueueing]
    /\ UNCHANGED <<failed, run, housekeeping, attempts>>
    /\ UNCHANGED notOfflineVars

\* AsyncStorage.setItem fails: the catch logs, nothing is queued
QueueWriteFails(q) ==
    /\ queueing[q].pc = "writing"
    /\ queueing' = [queueing EXCEPT ![q] = NoQueueing]
    /\ UNCHANGED <<queue, failed, run, housekeeping, attempts>>
    /\ UNCHANGED notOfflineVars

\* processQueuedNotifications() up to `await this.getQueuedNotifications()`;
\* a call while a run is in flight, or offline, returns at once
processQueuedNotifications ==
    /\ run.pc = "idle"
    /\ isOnline
    /\ \A id \in DOMAIN attempts : attempts[id] < MaxAttempts
    /\ run' = [NoRun EXCEPT !.pc = "reading"]
    /\ UNCHANGED <<queue, failed, queueing, housekeeping, attempts>>
    /\ UNCHANGED notOfflineVars

\* getQueuedNotifications resolves with the stored queue; an empty queue
\* ends the run
ReadQueue ==
    /\ run.pc = "reading"
    /\ run' = IF queue = <<>> THEN NoRun
              ELSE [run EXCEPT !.pc = "sending", !.queue = queue, !.next = 1]
    /\ UNCHANGED <<queue, failed, queueing, housekeeping, attempts>>
    /\ UNCHANGED notOfflineVars

\* AsyncStorage.getItem fails: getQueuedNotifications returns [], the run
\* ends with nothing processed
ReadQueueFails ==
    /\ run.pc = "reading"
    /\ run' = NoRun
    /\ UNCHANGED <<queue, failed, queueing, housekeeping, attempts>>
    /\ UNCHANGED notOfflineVars

\* one turn of the loop of processQueuedNotifications: the call c of
\* sendComprehensiveNotification for the next queued notification is made
\* and awaited
SendQueued(c) ==
    /\ run.pc = "sending"
    /\ BeginCall(c, "police_checkpoint")
    /\ run' = [run EXCEPT !.pc = "awaiting", !.call = c]
    /\ attempts' = [attempts EXCEPT ![run.queue[run.next].id] = @ + 1]
    /\ UNCHANGED <<queue, failed, queueing, housekeeping>>
    /\ UNCHANGED <<authVars, nextTick, settingsVars, relayVars, clock, calcVars,
                   storeVars, sweeperVars, viewVars>>

\* the awaited call has ended: the id is pushed to processedIds and the loop
\* goes on, or is over
SendResolved ==
    /\ run.pc = "awaiting"
    /\ sending[run.call].pc = "done"
    /\ run' = [run EXCEPT
           !.processedIds = @ \cup {run.queue[run.next].id},
           !.call = 0,
           !.next = IF run.next < Len(run.queue) THEN @ + 1 ELSE @,
           !.pc = IF run.next < Len(run.queue) THEN "sending" ELSE "writing"]
    /\ UNCHANGED <<queue, failed, queueing, housekeeping, attempts>>
    /\ UNCHANGED notOfflineVars

\* queue.filter(n => !processedIds.includes(n.id))
remainingQueue ==
    SelectSeq(run.queue, LAMBDA n : n.id \notin run.processedIds)

\* the remaining queue is written; no notification of the run has failed,
\* and the run ends
WriteRemaining ==
    /\ run.pc = "writing"
    /\ queue' = remainingQueue
    /\ run' = NoRun
    /\ UNCHANGED <<failed, queueing, housekeeping, attempts>>
    /\ UNCHANGED notOfflineVars

\* AsyncStorage.setItem fails: the catch of the run logs, the stored queue
\* stays as it is, finally: the run ends
WriteRemainingFails ==
    /\ run.pc = "writing"
    /\ run' = NoRun
    /\ UNCHANGED <<queue, failed, queueing, housekeeping, attempts>>
    /\ UNCHANGED notOfflineVars

\* retryFailedNotifications(), up to `await this.getFailedNotifications()`
retryFailedNotifications ==
    /\ housekeeping.pc = "idle"
    /\ isOnline
    /\ housekeeping' = [op |-> "retryFailedNotifications", pc |-> "reading"]
    /\ UNCHANGED <<queue, failed, queueing, run, attempts>>
    /\ UNCHANGED notOfflineVars

\* getFailedNotifications resolves, with the stored list or with [] when
\* the read fails: the list is empty and the call returns
ReadFailed ==
    /\ housekeeping.op = "retryFailedNotifications"
    /\ housekeeping.pc = "reading"
    /\ failed = <<>>
    /\ housekeeping' = NoHousekeeping
    /\ UNCHANGED <<queue, failed, queueing, run, attempts>>
    /\ UNCHANGED notOfflineVars

\* clearAllQueues(), up to `await AsyncStorage.removeItem(this.STORAGE_KEY)`
clearAllQueues ==
    /\ housekeeping.pc = "idle"
    /\ housekeeping' = [op |-> "clearAllQueues", pc |-> "queue"]
    /\ UNCHANGED <<queue, failed, queueing, run, attempts>>
    /\ UNCHANGED notOfflineVars

\* the pending queue is removed
RemoveQueue ==
    /\ housekeeping.op = "clearAllQueues"
    /\ housekeeping.pc = "queue"
    /\ queue' = <<>>
    /\ housekeeping' = [housekeeping EXCEPT !.pc = "failed"]
    /\ UNCHANGED <<failed, queueing, run, attempts>>
    /\ UNCHANGED notOfflineVars

\* AsyncStorage.removeItem fails: the catch logs
RemoveQueueFails ==
    /\ housekeeping.op = "clearAllQueues"
    /\ housekeeping.pc = "queue"
    /\ housekeeping' = NoHousekeeping
    /\ UNCHANGED <<queue, failed, queueing, run, attempts>>
    /\ UNCHANGED notOfflineVars

\* the failed list is removed (or the removal fails and the catch logs);
\* there is no retry timer to clear
RemoveFailed ==
    /\ housekeeping.op = "clearAllQueues"
    /\ housekeeping.pc = "failed"
    /\ failed' = <<>>
    /\ housekeeping' = NoHousekeeping
    /\ UNCHANGED <<queue, queueing, run, attempts>>
    /\ UNCHANGED notOfflineVars

(***************************************************************************)
(* Time: the instants around the minute boundaries at which a TTL of the   *)
(* submitted categories ends.                                              *)
(***************************************************************************)
MaxClock == 301000

Instants ==
    {0} \cup
    {t \in {m * 60000 + d : m \in {EXPIRY_TIMES(c) : c \in SweepCategories},
                            d \in {-1000, 0, 1000}} : t <= MaxClock}

\* the instants of the screen's runs: the submission and an instant after the
\* longest TTL submitted
ViewInstants == {0, MaxClock}

Advance(instants) ==
    /\ \E t \in instants : t > clock /\ clock' = t
    /\ UNCHANGED <<relayVars, notifyVars, appVars, calcVars, storeVars, sweeperVars, viewVars>>

OfflineIdle ==
    /\ queue = <<>>
    /\ failed = <<>>
    /\ queueing = <<>>
    /\ run = NoRun
    /\ housekeeping = NoHousekeeping
    /\ attempts = [id \in {} |-> 0]

AuthIdle ==
    /\ session = FALSE
    /\ handlers = <<>>

SettingsIdle ==
    /\ updates = <<>>
    /\ storageOps = <<>>
    /\ removed = {}

AppIdle ==
    /\ OfflineIdle
    /\ AuthIdle
    /\ SettingsIdle

CalcIdle ==
    calc = [category |-> "general", updatedAt |-> 0, evaluated |-> {},
            expiryTime |-> 0, expired |-> FALSE, remaining |-> 0,
            aboutToExpire |-> FALSE]

\* several clients, each with its sweeper, over a store of one report
Init ==
    /\ clock = 0
    /\ CalcIdle
    /\ AppIdle
    /\ StoreInit({1})
    /\ SweeperInit(1..NumClients)
    /\ ViewIdle
    /\ NotifyIdle

\* one client's sweeper over a store of several reports
StoreSweepInit ==
    /\ clock = 0
    /\ CalcIdle
    /\ AppIdle
    /\ StoreInit(1..MaxReports)
    /\ SweeperInit({1})
    /\ ViewIdle
    /\ NotifyIdle

Next ==
    \/ Advance(Instants)
    \/ \E r \in ReportIds : createReport(r, SubmittedCategory(r))
    \/ \E r \in ReportIds : editReport(r)
    \/ \E r \in ReportIds, status \in ReportStatuses : updateReportStatus(r, status)
    \/ \E c \in Clients : start(c)
    \/ \E c \in Clients : stop(c)
    \/ \E c \in Clients : TimerTick(c)
    \/ \E s \in DOMAIN sweeps : FetchReports(s)
    \/ \E s \in DOMAIN sweeps : FetchFails(s)
    \/ \E s \in DOMAIN sweeps : EvaluateSweep(s)
    \/ \E s \in DOMAIN sweeps : ApplyMarkExpired(s)
    \/ \E s \in DOMAIN sweeps : MarkExpiredFails(s)

Spec == Init /\ [][Next]_vars

\* the submission and the instants around the end of the longest TTL submitted
StoreInstants == {0} \cup {t \in Instants : t >= MaxClock - 2000}

\* the store's writers and the sweeps of the one client, every store call
\* succeeding
StoreNext ==
    \/ Advance(StoreInstants)
    \/ \E r \in ReportIds : createReport(r, SubmittedCategory(r))
    \/ \E r \in ReportIds : editReport(r)
    \/ \E r \in ReportIds, status \in ReportStatuses \ {"active"} : updateReportStatus(r, status)
    \/ \E c \in Clients : start(c)
    \/ \E c \in Clients : TimerTick(c)
    \/ \E s \in DOMAIN sweeps : FetchReports(s)
    \/ \E s \in DOMAIN sweeps : EvaluateSweep(s)
    \/ \E s \in DOMAIN sweeps : ApplyMarkExpired(s)

SpecStore == StoreSweepInit /\ [][StoreNext]_vars

(***************************************************************************)
(* A screen fed by the change feed, over a store that other clients        *)
(* change: they submit, edit and resolve reports, their sweepers expire    *)
(* them, and expired rows are deleted.                                     *)
(***************************************************************************)
\* olderThanHours of the deleteExpiredReports calls (24 by default: further
\* than the instants of the model)
DeleteAfterHours == {0}

\* deleteExpiredReports() requests on their way at one time
MaxDeletes == 1

\* SupabaseService.deleteExpiredReports(olderThanHours), up to the await:
\* cutoffTime is taken from the clock of the call and the request is sent
deleteExpiredReports(olderThanHours) ==
    /\ Len(deletes) < MaxDeletes
    /\ deletes' = Append(deletes, clock - olderThanHours * 3600000)
    /\ UNCHANGED <<reports, relayVars, notifyVars, appVars, clock, calcVars,
                   sweeperVars, viewVars>>

\* the store applies the request at position d: DELETE FROM reports WHERE
\* status = 'expired' AND updated_at < cutoffTime, on the rows as they are now
ApplyDeleteExpired(d) ==
    LET cutoffTime == deletes[d]
        old == {r \in Existing(reports) :
                   /\ reports[r].status = "expired"
                   /\ reports[r].updated_at < cutoffTime}
        ids == SortedDesc(old)
    IN  /\ d \in DOMAIN deletes
        /\ deletes' = Without(deletes, d)
        /\ reports' = [r \in ReportIds |->
               IF r \in old THEN [reports[r] EXCEPT !.status = "deleted"]
               ELSE reports[r]]
        /\ Publish([i \in 1..Len(ids) |-> Event("DELETE", ids[Len(ids) + 1 - i])])
        /\ UNCHANGED <<relayVars, notifyVars, appVars, clock, calcVars, sweeperVars>>

\* the request fails: { data: null, error } is returned, no row is deleted
DeleteExpiredFails(d) ==
    /\ d \in DOMAIN deletes
    /\ deletes' = Without(deletes, d)
    /\ UNCHANGED <<reports, relayVars, notifyVars, appVars, clock, calcVars,
                   sweeperVars, viewVars>>

\* sendComprehensiveNotification calls of the hook's callbacks in flight at
\* one time
RelayCalls == 1

\* the screen is mounted: subscribed, and TimelineScreen's initializeScreen
\* has called loadReports(); the store holds MaxReports reports under
\* TimelineScreen and one under the hook's state
ViewInit ==
    /\ clock = 0
    /\ CalcIdle
    /\ AppIdle
    /\ SweeperInit({})
    /\ screen \in {"timeline", "hook"}
    /\ StoreInit(IF screen = "hook" THEN {1} ELSE 1..MaxReports)
    /\ NotifyReady(IF screen = "hook" THEN 1..RelayCalls ELSE {})
    /\ feed = <<>>
    /\ published = 0
    /\ hydrations = <<>>
    /\ view = <<>>
    /\ timeline = NoTimeline
    /\ loads = IF screen = "timeline" THEN <<NewLoad(FALSE, FALSE)>> ELSE <<>>
    /\ calls = NoCalls(ReportIds)
    /\ subscribed = TRUE
    /\ mounted = TRUE
    /\ currentUser = "U1"
    /\ notified = NoNotified(ReportIds)

ViewNext ==
    \/ Advance(ViewInstants)
    \/ \E r \in ReportIds : createReport(r, SubmittedCategory(r))
    \/ \E r \in ReportIds : editReport(r)
    \/ \E r \in ReportIds, status \in {"expired"} : updateReportStatus(r, status)
    \/ \E h \in DeleteAfterHours : deleteExpiredReports(h)
    \/ \E d \in DOMAIN deletes : ApplyDeleteExpired(d)
    \/ \E again \in BOOLEAN : Deliver(again)
    \/ \E h \in DOMAIN hydrations : FetchReportById(h)
    \/ \E h \in DOMAIN hydrations : Hydrate(h)
    \/ onRefresh
    \/ loadMore
    \/ \E l \in DOMAIN loads : LoadFetch(l)
    \/ \E l \in DOMAIN loads : LoadFails(l)
    \/ \E l \in DOMAIN loads : LoadApply(l)
    \/ \E newReports \in CallerLists : updateReports(newReports)
    \/ \E c \in Calls : ReadPreferences(c)
    \/ \E c \in Calls : CheckGates(c)
    \/ \E c \in Calls : ReadNotifications(c)
    \/ \E c \in Calls : StoreNotification(c)
    \/ \E c \in Calls : SendSystemNotification(c)

SpecView == ViewInit /\ [][ViewNext]_vars

(***************************************************************************)
(* The relay: useRealtimeReportsState on the client of either user, while   *)
(* its component is mounted and after it has unmounted.                    *)
(***************************************************************************)
\* the cleanup of the effect before it runs again: subscriptionRef.current
\* .unsubscribe(); the channel delivers nothing more, the callbacks awaiting
\* getReportById go on
unsubscribe ==
    /\ mounted
    /\ subscribed
    /\ subscribed' = FALSE
    /\ feed' = <<>>
    /\ UNCHANGED <<mounted, currentUser, notified, notifyVars, appVars, clock, calcVars, storeVars,
                   sweeperVars, screen, published, hydrations, view, timeline, loads, calls>>

\* the effect runs again after a render (its dependencies, the handlers, are
\* new functions at every render of useRealtimeReportsState): after the
\* cleanup, setupSubscription() opens a new channel with a new callback
setupSubscription ==
    /\ screen = "hook"
    /\ mounted
    /\ ~subscribed
    /\ subscribed' = TRUE
    /\ UNCHANGED <<mounted, currentUser, notified, notifyVars, appVars, clock, calcVars, storeVars,
                   sweeperVars, screen, feed, published, hydrations, view, timeline, loads, calls>>

\* the component unmounts: the cleanup of the effect unsubscribes, and from
\* now on React ignores the setReports of the handlers
unmount ==
    /\ mounted
    /\ subscribed
    /\ mounted' = FALSE
    /\ subscribed' = FALSE
    /\ feed' = <<>>
    /\ UNCHANGED <<currentUser, notified, notifyVars, appVars, clock, calcVars, storeVars,
                   sweeperVars, screen, published, hydrations, view, timeline, loads, calls>>

RelayInit ==
    /\ clock = 0
    /\ CalcIdle
    /\ AppIdle
    /\ NotifyReady(1..RelayCalls)
    /\ StoreInit({1})
    /\ SweeperInit({})
    /\ screen = "hook"
    /\ feed = <<>>
    /\ published = 0
    /\ hydrations = <<>>
    /\ view = <<>>
    /\ timeline = NoTimeline
    /\ loads = <<>>
    /\ calls = NoCalls(ReportIds)
    /\ subscribed = TRUE
    /\ mounted = TRUE
    /\ currentUser \in Users
    /\ notified = NoNotified(ReportIds)

RelayNext ==
    \/ Advance(ViewInstants)
    \/ \E r \in ReportIds : createReport(r, SubmittedCategory(r))
    \/ \E r \in ReportIds : editReport(r)
    \/ \E r \in ReportIds, status \in ReportStatuses : updateReportStatus(r, status)
    \/ \E again \in BOOLEAN : Deliver(again)
    \/ \E h \in DOMAIN hydrations : FetchReportById(h)
    \/ \E h \in DOMAIN hydrations : Hydrate(h)
    \/ \E h \in DOMAIN hydrations : HydrateFails(h)
    \/ unsubscribe
    \/ setupSubscription
    \/ unmount
    \/ \E c \in Calls : ReadPreferences(c)
    \/ \E c \in Calls : CheckGates(c)
    \/ \E c \in Calls : ReadNotifications(c)
    \/ \E c \in Calls : StoreNotification(c)
    \/ \E c \in Calls : SendSystemNotification(c)

SpecRelay == RelayInit /\ [][RelayNext]_vars

(***************************************************************************)
(* The coordinator under bounded preferences: Init draws the stored        *)
(* preferences; report events of two categories arrive at the instants of  *)
(* two days around the quiet-hours window and the frequency intervals.     *)
(***************************************************************************)
NotifyCategories == {"police_checkpoint", "accident"}

\* Sunday 11 January 1970, 00:00
NotifyEpoch == 10 * 86400000

\* times of day <<day, hour, minute, ms>> after NotifyEpoch
NotifyInstants ==
    {NotifyEpoch + t[1] * 86400000 + t[2] * 3600000 + t[3] * 60000 + t[4] :
        t \in {<<0, 12, 0, 0>>, <<0, 12, 5, 0>>, <<0, 12, 30, 0>>, <<0, 13, 0, 0>>,
               <<0, 13, 1, 0>>, <<0, 22, 0, 0>>,
               <<0, 23, 30, 0>>, <<1, 6, 30, 0>>, <<1, 7, 0, 0>>,
               <<1, 12, 0, 0>>}}

QuietHoursChoices ==
    {DEFAULT_GLOBAL_SETTINGS.quiet_hours,
     [DEFAULT_GLOBAL_SETTINGS.quiet_hours EXCEPT !.enabled = TRUE],
     [DEFAULT_GLOBAL_SETTINGS.quiet_hours EXCEPT !.enabled = TRUE, !.days = {0}],
     [enabled |-> TRUE, start_time |-> <<12, 5>>, end_time |-> <<13, 0>>,
      days |-> 0..6]}

\* the settings of police_checkpoints vary; those of accidents are the
\* defaults or are missing from the stored record
PreferenceChoices ==
    {[k \in keys |->
        CASE k = "global_settings" ->
                 [master_enabled |-> TRUE, quiet_hours |-> q]
          [] k = "police_checkpoints" -> s
          [] OTHER -> DEFAULT_SETTINGS] :
        keys \in {DOMAIN getDefaultNotificationPreferences,
                  DOMAIN getDefaultNotificationPreferences \ {"accidents"}},
        q \in QuietHoursChoices,
        s \in [enabled : BOOLEAN, frequency : Frequencies, show_system : BOOLEAN]}

\* time passes between the calls: a call takes less than the minutes that
\* separate the instants
NotifyAdvance ==
    /\ \A c \in Calls : sending[c].pc \in {"idle", "done"}
    /\ \E t \in NotifyInstants : t > clock /\ clock' = t
    /\ UNCHANGED <<relayVars, notifyVars, appVars, calcVars, storeVars, sweeperVars, viewVars>>

NotifyInit ==
    /\ clock = NotifyEpoch + 12 * 3600000
    /\ CalcIdle
    /\ AppIdle
    /\ StoreInit({1})
    /\ SweeperInit({})
    /\ ViewIdle
    /\ preferences \in PreferenceChoices
    /\ lastNotificationTimes = [c \in {} |-> 0]
    /\ notifications = [c \in Categories |-> <<>>]
    /\ issued = 0
    /\ returned = {}
    /\ dispatched = [c \in Categories |-> 0]
    /\ sending = [c \in {1} |-> NoCall]

NotifyNext ==
    \/ NotifyAdvance
    \/ \E c \in Calls, category \in NotifyCategories :
           sendComprehensiveNotification(c, category)
    \/ \E c \in Calls : ReadPreferences(c)
    \/ \E c \in Calls : ReadPreferencesFails(c)
    \/ \E c \in Calls : CheckGates(c)
    \/ \E c \in Calls : ReadNotifications(c)
    \/ \E c \in Calls : ReadNotificationsFails(c)
    \/ \E c \in Calls : StoreNotification(c)
    \/ \E c \in Calls : StoreNotificationFails(c)
    \/ \E c \in Calls : SendSystemNotification(c)

SpecNotify == NotifyInit /\ [][NotifyNext]_vars

(***************************************************************************)
(* The coordinator while the user changes the preferences: calls are made  *)
(* at noon, half an hour later and at 23:00, and between their awaits the  *)
(* stored preferences are updated, saved or reset.                         *)
(***************************************************************************)
PrefsInstants ==
    {NotifyEpoch + h[1] * 3600000 + h[2] * 60000 : h \in {<<12, 0>>, <<12, 30>>, <<23, 0>>}}

QuietOvernight ==
    [enabled |-> TRUE, start_time |-> <<22, 0>>, end_time |-> <<7, 0>>,
     days |-> 0..6]

\* the Partial<NotificationSettings> of the updates
CategorySettingsChoices ==
    {[enabled |-> FALSE], [frequency |-> "hourly"]}

\* the Partial<GlobalNotificationSettings> of the updates
GlobalSettingsChoices ==
    {[master_enabled |-> FALSE], [quiet_hours |-> QuietOvernight]}

\* the records saved whole
SavedPreferencesChoices ==
    {[getDefaultNotificationPreferences EXCEPT
         !.police_checkpoints = [@ EXCEPT !.show_system = FALSE]]}

PrefsInit ==
    /\ clock = NotifyEpoch + 12 * 3600000
    /\ CalcIdle
    /\ OfflineIdle
    /\ AuthIdle
    /\ StoreInit({1})
    /\ SweeperInit({})
    /\ ViewIdle
    /\ updates = [u \in {1} |-> NoUpdate]
    /\ storageOps = <<>>
    /\ removed = {}
    /\ preferences = getDefaultNotificationPreferences
    /\ lastNotificationTimes = [c \in {} |-> 0]
    /\ notifications = [c \in Categories |-> <<>>]
    /\ issued = 0
    /\ returned = {}
    /\ dispatched = [c \in Categories |-> 0]
    /\ sending = [c \in {1} |-> NoCall]

PrefsNext ==
    \/ Advance(PrefsInstants)
    \/ \E c \in Calls : sendComprehensiveNotification(c, "police_checkpoint")
    \/ scheduleLocalNotification("police_checkpoint")
    \/ \E c \in Calls : ReadPreferences(c)
    \/ \E c \in Calls : ReadPreferencesFails(c)
    \/ \E c \in Calls : CheckGates(c)
    \/ \E c \in Calls : ReadNotifications(c)
    \/ \E c \in Calls : StoreNotification(c)
    \/ \E c \in Calls : SendSystemNotification(c)
    \/ \E u \in DOMAIN updates, settings \in CategorySettingsChoices :
           updateCategoryPreferences(u, "police_checkpoint", settings)
    \/ \E u \in DOMAIN updates, settings \in GlobalSettingsChoices :
           updateGlobalSettings(u, settings)
    \/ \E u \in DOMAIN updates : MergePreferences(u)
    \/ \E u \in DOMAIN updates : MergePreferencesFails(u)
    \/ \E u \in DOMAIN updates : SavePreferences(u)
    \/ \E u \in DOMAIN updates : SavePreferencesFails(u)
    \/ \E prefs \in SavedPreferencesChoices : saveNotificationPreferences(prefs)
    \/ resetPreferencesToDefault

SpecPrefs == PrefsInit /\ [][PrefsNext]_vars

(***************************************************************************)
(* The stored lists under the calls of the notification history: records   *)
(* are stored by sendComprehensiveNotification while the user marks,       *)
(* deletes, cleans up and clears.  The second instant is two days after    *)
(* the first, past what a clean-up keeps.                                  *)
(***************************************************************************)
\* the daysToKeep of the clean-ups
DaysToKeep == 1

StorageInstants ==
    {NotifyEpoch + 12 * 3600000,
     NotifyEpoch + 12 * 3600000 + (DaysToKeep + 1) * 86400000}

\* the statuses the notification history sets
HistoryStatuses == {"read", "dismissed"}

StorageInit ==
    /\ clock = NotifyEpoch + 12 * 3600000
    /\ CalcIdle
    /\ OfflineIdle
    /\ AuthIdle
    /\ StoreInit({1})
    /\ SweeperInit({})
    /\ ViewIdle
    /\ updates = <<>>
    /\ storageOps = [o \in {1} |-> NoOp]
    /\ removed = {}
    /\ preferences = getDefaultNotificationPreferences
    /\ lastNotificationTimes = [c \in {} |-> 0]
    /\ notifications = [c \in Categories |-> <<>>]
    /\ issued = 0
    /\ returned = {}
    /\ dispatched = [c \in Categories |-> 0]
    /\ sending = [c \in {1} |-> NoCall]

StorageNext ==
    \/ Advance(StorageInstants)
    \/ \E c \in Calls : sendComprehensiveNotification(c, "police_checkpoint")
    \/ \E c \in Calls : ReadPreferences(c)
    \/ \E c \in Calls : CheckGates(c)
    \/ \E c \in Calls : ReadNotifications(c)
    \/ \E c \in Calls : StoreNotification(c)
    \/ \E c \in Calls : SendSystemNotification(c)
    \/ \E o \in DOMAIN storageOps, id \in returned, status \in HistoryStatuses :
           updateNotificationStatus(o, id, status)
    \/ \E o \in DOMAIN storageOps, id \in returned : deleteNotification(o, id)
    \/ \E o \in DOMAIN storageOps : markAllAsRead(o)
    \/ \E o \in DOMAIN storageOps : cleanupOldNotifications(o, DaysToKeep)
    \/ \E o \in DOMAIN storageOps : clearAllNotifications(o)
    \/ \E o \in DOMAIN storageOps : ReadCategory(o)
    \/ \E o \in DOMAIN storageOps : ReadCategoryFails(o)
    \/ \E o \in DOMAIN storageOps : WriteCategory(o)
    \/ \E o \in DOMAIN storageOps : WriteCategoryFails(o)
    \/ \E o \in DOMAIN storageOps : ClearCategory(o)
    \/ \E o \in DOMAIN storageOps : ClearCategoryFails(o)

SpecStorage == StorageInit /\ [][StorageNext]_vars

(***************************************************************************)
(* Two report events handled at once: each realtime callback is an async   *)
(* call of its own, so a second sendComprehensiveNotification can start    *)
(* while the first is at one of its awaits.  Storage and the dispatch      *)
(* always succeed here.                                                    *)
(***************************************************************************)
ConcurrentPreferenceChoices ==
    {[getDefaultNotificationPreferences EXCEPT
         !.police_checkpoints = [@ EXCEPT !.frequency = f, !.show_system = s]] :
        f \in {"every_5min", "hourly"}, s \in BOOLEAN}

\* the instants at which the two calls take their steps
ConcurrentInstants ==
    {NotifyEpoch + 12 * 3600000 + m * 60000 : m \in {1, 5, 60}}

ConcurrentAdvance ==
    /\ \E t \in ConcurrentInstants : t > clock /\ clock' = t
    /\ UNCHANGED <<relayVars, notifyVars, appVars, calcVars, storeVars, sweeperVars, viewVars>>

ConcurrentInit ==
    /\ clock = NotifyEpoch + 12 * 3600000
    /\ CalcIdle
    /\ AppIdle
    /\ StoreInit({1})
    /\ SweeperInit({})
    /\ ViewIdle
    /\ preferences \in ConcurrentPreferenceChoices
    /\ lastNotificationTimes = [c \in {} |-> 0]
    /\ notifications = [c \in Categories |-> <<>>]
    /\ issued = 0
    /\ returned = {}
    /\ dispatched = [c \in Categories |-> 0]
    /\ sending = [c \in {1, 2} |-> NoCall]

ConcurrentNext ==
    \/ ConcurrentAdvance
    \/ \E c \in Calls, category \in NotifyCategories :
           sendComprehensiveNotification(c, category)
    \/ \E c \in Calls : ReadPreferences(c)
    \/ \E c \in Calls : CheckGates(c)
    \/ \E c \in Calls : ReadNotifications(c)
    \/ \E c \in Calls : StoreNotification(c)
    \/ \E c \in Calls : SendSystemNotification(c)

SpecConcurrent == ConcurrentInit /\ [][ConcurrentNext]_vars

(***************************************************************************)
(* The offline service under the calls of its public functions:            *)
(* notifications are sent with offline support, runs of                    *)
(* processQueuedNotifications() read the pending queue, and the queues are *)
(* retried and cleared; any storage request of the service may fail.       *)
(* police_checkpoints is immediate or hourly.                              *)
(***************************************************************************)
OfflinePreferenceChoices ==
    {[getDefaultNotificationPreferences EXCEPT
         !.police_checkpoints = [@ EXCEPT !.frequency = f]] :
        f \in {"immediate", "hourly"}}

OfflineInit ==
    /\ clock = NotifyEpoch + 12 * 3600000
    /\ CalcIdle
    /\ AuthIdle
    /\ SettingsIdle
    /\ StoreInit({1})
    /\ SweeperInit({})
    /\ ViewIdle
    /\ queue = <<>>
    /\ failed = <<>>
    /\ queueing = [q \in {1, 2} |-> NoQueueing]
    /\ run = NoRun
    /\ housekeeping = NoHousekeeping
    /\ attempts = [id \in {} |-> 0]
    /\ preferences \in OfflinePreferenceChoices
    /\ lastNotificationTimes = [c \in {} |-> 0]
    /\ notifications = [c \in Categories |-> <<>>]
    /\ issued = 0
    /\ returned = {}
    /\ dispatched = [c \in Categories |-> 0]
    /\ sending = [c \in {1} |-> NoCall]

OfflineNext ==
    \/ \E c \in Calls : sendNotificationWithOfflineSupport(c, "police_checkpoint")
    \/ \E q \in DOMAIN queueing : QueueRead(q)
    \/ \E q \in DOMAIN queueing : QueueReadFails(q)
    \/ \E q \in DOMAIN queueing : QueueWrite(q)
    \/ \E q \in DOMAIN queueing : QueueWriteFails(q)
    \/ processQueuedNotifications
    \/ ReadQueue
    \/ ReadQueueFails
    \/ \E c \in Calls : SendQueued(c)
    \/ \E c \in Calls : ReadPreferences(c)
    \/ \E c \in Calls : CheckGates(c)
    \/ \E c \in Calls : ReadNotifications(c)
    \/ \E c \in Calls : StoreNotification(c)
    \/ \E c \in Calls : SendSystemNotification(c)
    \/ SendResolved
    \/ WriteRemaining
    \/ WriteRemainingFails
    \/ retryFailedNotifications
    \/ ReadFailed
    \/ clearAllQueues
    \/ RemoveQueue
    \/ RemoveQueueFails
    \/ RemoveFailed

SpecOffline == OfflineInit /\ [][OfflineNext]_vars

\* the pending queue and the failed list of the service stay empty: no call
\* of queueNotification() begins, nothing is sent from the queue
NothingQueued ==
    /\ queue = <<>> /\ failed = <<>>
    /\ attempts = [id \in {} |-> 0]
    /\ \A q \in DOMAIN queueing : queueing[q] = NoQueueing

(***************************************************************************)
(* AuthContext: the onAuthStateChange handler on one client.  An event     *)
(* with a session awaits loadUserProfile and then starts the sweeper; an   *)
(* event without a session stops it at once.  The handler of an event      *)
(* begins when the event arrives, whatever the earlier handlers are doing. *)
(***************************************************************************)
\* sign-in handlers awaiting loadUserProfile at one time
MaxHandlers == 2

\* what the handlers leave alone besides the sweeper
notAuthVars ==
    <<offlineVars, nextTick, settingsVars, relayVars, notifyVars, clock, calcVars,
      storeVars, viewVars>>

\* an event with a session: setUser(session.user), await loadUserProfile(...)
AuthSignedIn ==
    /\ Len(handlers) < MaxHandlers
    /\ session' = TRUE
    /\ handlers' = Append(handlers, "loadUserProfile")
    /\ UNCHANGED sweeperVars
    /\ UNCHANGED notAuthVars

\* loadUserProfile returns to the handler at position i:
\* reportExpiryService.start(), setLoading(false)
ProfileLoaded(c, i) ==
    /\ i \in DOMAIN handlers
    /\ handlers' = Without(handlers, i)
    /\ start_body(c)
    /\ UNCHANGED session
    /\ UNCHANGED notAuthVars

\* an event without a session: setUser(null), setAppUser(null),
\* reportExpiryService.stop(), setLoading(false)
AuthSignedOut(c) ==
    /\ session' = FALSE
    /\ stop_body(c)
    /\ UNCHANGED handlers
    /\ UNCHANGED notAuthVars

AuthInit ==
    /\ clock = 0
    /\ CalcIdle
    /\ AppIdle
    /\ StoreInit({1})
    /\ SweeperInit({1})
    /\ ViewIdle
    /\ NotifyIdle

AuthNext ==
    \/ Advance(Instants)
    \/ \E r \in ReportIds : createReport(r, SubmittedCategory(r))
    \/ AuthSignedIn
    \/ \E c \in Clients, i \in DOMAIN handlers : ProfileLoaded(c, i)
    \/ \E c \in Clients : AuthSignedOut(c)
    \/ \E c \in Clients : TimerTick(c)
    \/ \E s \in DOMAIN sweeps : FetchReports(s)
    \/ \E s \in DOMAIN sweeps : EvaluateSweep(s)
    \/ \E s \in DOMAIN sweeps : ApplyMarkExpired(s)

SpecAuth == AuthInit /\ [][AuthNext]_vars

(***************************************************************************)
(* The sweeper's interval in time: setInterval(callback, CHECK_INTERVAL)   *)
(* fires first one interval after the call and then every interval, until  *)
(* clearInterval.  Time does not pass the instant a live interval is due   *)
(* at before its callback has run.                                         *)
(***************************************************************************)
CHECK_INTERVAL == 30 * 1000

\* the instants of the run: every 10 seconds of a minute and a half
TickInstants == {k * 10000 : k \in 0..9}

\* what start(), stop() and the interval leave alone
notSweeperVars ==
    <<offlineVars, authVars, settingsVars, relayVars, notifyVars, clock, calcVars,
      storeVars, viewVars>>

TickAdvance ==
    /\ \E t \in TickInstants :
           /\ t > clock
           /\ \A c \in Clients : timers[c] # {} => t <= nextTick[c]
           /\ clock' = t
    /\ UNCHANGED <<relayVars, notifyVars, appVars, calcVars, storeVars, sweeperVars,
                   viewVars>>

\* start() at the instant `clock`
TimedStart(c) ==
    /\ start_body(c)
    /\ nextTick' = IF isRunning[c] THEN nextTick
                   ELSE [nextTick EXCEPT ![c] = clock + CHECK_INTERVAL]
    /\ UNCHANGED notSweeperVars

\* stop() at the instant `clock`
TimedStop(c) ==
    /\ stop_body(c)
    /\ UNCHANGED nextTick
    /\ UNCHANGED notSweeperVars

\* the live interval is due: its callback calls checkExpiredReports()
IntervalElapses(c) ==
    /\ timers[c] # {}
    /\ clock = nextTick[c]
    /\ BeginSweep(c)
    /\ nextTick' = [nextTick EXCEPT ![c] = clock + CHECK_INTERVAL]
    /\ UNCHANGED <<isRunning, intervalId, timers>>
    /\ UNCHANGED notSweeperVars

TickInit ==
    /\ clock = 0
    /\ CalcIdle
    /\ AppIdle
    /\ StoreInit({1})
    /\ SweeperInit({1})
    /\ ViewIdle
    /\ NotifyIdle

TickNext ==
    \/ TickAdvance
    \/ \E r \in ReportIds : createReport(r, SubmittedCategory(r))
    \/ \E c \in Clients : TimedStart(c)
    \/ \E c \in Clients : TimedStop(c)
    \/ \E c \in Clients : IntervalElapses(c)
    \/ \E s \in DOMAIN sweeps : FetchReports(s)
    \/ \E s \in DOMAIN sweeps : EvaluateSweep(s)

SpecTick == TickInit /\ [][TickNext]_vars

(***************************************************************************)
(* TimelineScreen after its first loadReports() has returned the rows of   *)
(* an empty store: the screen is subscribed, every getReportById succeeds  *)
(* and the channel delivers every event once.                              *)
(***************************************************************************)
\* the submission and the instants from the end of the longest TTL submitted
SettleInstants == {0} \cup {t \in Instants : t >= MaxClock - 1000}

SettleInit ==
    /\ clock = 0
    /\ CalcIdle
    /\ AppIdle
    /\ NotifyIdle
    /\ StoreInit(1..MaxReports)
    /\ SweeperRunning({1})
    /\ screen = "timeline"
    /\ feed = <<>>
    /\ published = 0
    /\ hydrations = <<>>
    /\ view = <<>>
    /\ timeline = [NoTimeline EXCEPT !.offset = PageSize, !.hasMore = FALSE]
    /\ loads = <<>>
    /\ calls = NoCalls(ReportIds)
    /\ subscribed = TRUE
    /\ mounted = TRUE
    /\ currentUser = "U1"
    /\ notified = NoNotified(ReportIds)

SettleNext ==
    \/ Advance(SettleInstants)
    \/ \E r \in ReportIds : createReport(r, SubmittedCategory(r))
    \/ \E c \in Clients : TimerTick(c)
    \/ \E s \in DOMAIN sweeps : FetchReports(s)
    \/ \E s \in DOMAIN sweeps : EvaluateSweep(s)
    \/ \E s \in DOMAIN sweeps : ApplyMarkExpired(s)
    \/ \E h \in DeleteAfterHours : deleteExpiredReports(h)
    \/ \E d \in DOMAIN deletes : ApplyDeleteExpired(d)
    \/ \E d \in DOMAIN deletes : DeleteExpiredFails(d)
    \/ Deliver(FALSE)
    \/ \E h \in DOMAIN hydrations : FetchReportById(h)
    \/ \E h \in DOMAIN hydrations : Hydrate(h)

SpecSettle == SettleInit /\ [][SettleNext]_vars

(***************************************************************************)
(* One client's sweeper over a store that holds one report more than the   *)
(* window of getReports().                                                 *)
(***************************************************************************)
WindowInit ==
    /\ clock = 0
    /\ CalcIdle
    /\ AppIdle
    /\ StoreInit(1..(GetReportsLimit + 1))
    /\ SweeperInit({1})
    /\ ViewIdle
    /\ NotifyIdle

WindowNext ==
    \/ Advance(Instants)
    \/ \E r \in ReportIds : createReport(r, SubmittedCategory(r))
    \/ \E c \in Clients : start(c)
    \/ \E c \in Clients : TimerTick(c)
    \/ \E s \in DOMAIN sweeps : FetchReports(s)
    \/ \E s \in DOMAIN sweeps : EvaluateSweep(s)
    \/ \E s \in DOMAIN sweeps : ApplyMarkExpired(s)

SpecWindow == WindowInit /\ [][WindowNext]_vars

(***************************************************************************)
(* The sweepers over a store whose calls may fail: a police_checkpoint     *)
(* report submitted at 0 is due from the first instant on, nobody edits    *)
(* it, and no sweeper is stopped.                                          *)
(***************************************************************************)
RetryInit ==
    /\ clock = EXPIRY_TIMES("police_checkpoint") * 60 * 1000
    /\ CalcIdle
    /\ AppIdle
    /\ reports = [r \in {1} |-> [status |-> "active",
                                 category |-> "police_checkpoint",
                                 updated_at |-> 0]]
    /\ deletes = <<>>
    /\ SweeperInit(1..NumClients)
    /\ ViewIdle
    /\ NotifyIdle

RetryNext ==
    \/ Advance(Instants)
    \/ \E c \in Clients : start(c)
    \/ \E c \in Clients : TimerTick(c)
    \/ \E s \in DOMAIN sweeps : FetchReports(s)
    \/ \E s \in DOMAIN sweeps : FetchFails(s)
    \/ \E s \in DOMAIN sweeps : EvaluateSweep(s)
    \/ \E s \in DOMAIN sweeps : ApplyMarkExpired(s)
    \/ \E s \in DOMAIN sweeps : MarkExpiredFails(s)

SpecRetry == RetryInit /\ [][RetryNext]_vars

(***************************************************************************)
(* The calculator under bounded inputs: Init draws category, updatedAt and *)
(* the instant of the call; each action evaluates one function.            *)
(***************************************************************************)
MaxCalcMinutes == 16

SubMinute == {0, 1, 1000, 59000, 59999}

CalcInstants == {m * 60000 + s : m \in 0..MaxCalcMinutes, s \in SubMinute}

CalcUpdatedAts == {0, 1, 60000}

CalcInit ==
    /\ clock \in CalcInstants
    /\ StoreInit({1})
    /\ SweeperInit({1})
    /\ ViewIdle
    /\ NotifyIdle
    /\ AppIdle
    /\ calc \in [category : Categories, updatedAt : CalcUpdatedAts,
                 evaluated : {{}}, expiryTime : {0}, expired : {FALSE},
                 remaining : {0}, aboutToExpire : {FALSE}]

EvalCalculateExpiryTime ==
    /\ "calculateExpiryTime" \notin calc.evaluated
    /\ calc' = [calc EXCEPT
                  !.evaluated = @ \cup {"calculateExpiryTime"},
                  !.expiryTime = calculateExpiryTime(calc.category, calc.updatedAt)]
    /\ UNCHANGED <<relayVars, notifyVars, appVars, clock, storeVars, sweeperVars, viewVars>>

EvalIsReportExpired ==
    /\ "isReportExpired" \notin calc.evaluated
    /\ calc' = [calc EXCEPT
                  !.evaluated = @ \cup {"isReportExpired"},
                  !.expired = isReportExpired(calc.category, calc.updatedAt, clock)]
    /\ UNCHANGED <<relayVars, notifyVars, appVars, clock, storeVars, sweeperVars, viewVars>>

EvalGetTimeUntilExpiry ==
    /\ "getTimeUntilExpiry" \notin calc.evaluated
    /\ calc' = [calc EXCEPT
                  !.evaluated = @ \cup {"getTimeUntilExpiry"},
                  !.remaining = getTimeUntilExpiry(calc.category, calc.updatedAt, clock)]
    /\ UNCHANGED <<relayVars, notifyVars, appVars, clock, storeVars, sweeperVars, viewVars>>

EvalIsReportAboutToExpire ==
    /\ "isReportAboutToExpire" \notin calc.evaluated
    /\ calc' = [calc EXCEPT
                  !.evaluated = @ \cup {"isReportAboutToExpire"},
                  !.aboutToExpire =
                      isReportAboutToExpire(calc.category, calc.updatedAt, clock)]
    /\ UNCHANGED <<relayVars, notifyVars, appVars, clock, storeVars, sweeperVars, viewVars>>

CalcNext ==
    \/ EvalCalculateExpiryTime
    \/ EvalIsReportExpired
    \/ EvalGetTimeUntilExpiry
    \/ EvalIsReportAboutToExpire

SpecCalc == CalcInit /\ [][CalcNext]_vars

(***************************************************************************)
(* The claims.                                                             *)
(***************************************************************************)

\* the TTL table as the specification states it, minutes
StatedTTL ==
    [police_checkpoint |-> 5, accident |-> 2, weather_alert |-> 2,
     general |-> 10, road_hazard |-> 15, traffic_jam |-> 15]

\* the ids of the rows of `data` that are active and due at `now`
DueIds(data, now) ==
    {data[k].id : k \in {i \in 1..Len(data) :
        /\ data[i].status = "active"
        /\ now >= data[i].updated_at + StatedTTL[data[i].category] * 60000}}

\* the ids a step of EvaluateSweep(s) hands to the bulk update
PassedIds(s) ==
    IF Len(sweeps') = Len(sweeps) /\ sweeps'[s].pc = "marking"
    THEN sweeps'[s].ids ELSE {}

\* C1: a sweep evaluated at `now` passes to the bulk mark-expired call exactly
\* the ids of the fetched reports that are active with now >= updated_at + TTL,
\* and makes no bulk call when there are none; a police_checkpoint report
\* anchored at T0 is not passed at T0 + 4min59s and is passed at T0 + 5min1s,
\* and the applied bulk update leaves every passed report expired.
C1_SweepPassesExactlyDueActive ==
    [][\A s \in DOMAIN sweeps :
        /\ EvaluateSweep(s) =>
             LET data == sweeps[s].data
                 due == IF sweeps[s].error THEN {} ELSE DueIds(data, clock)
             IN  /\ IF due = {}
                    THEN /\ Len(sweeps') = Len(sweeps) - 1
                         /\ \A i \in DOMAIN sweeps' :
                               \E j \in DOMAIN sweeps : sweeps'[i] = sweeps[j]
                    ELSE /\ Len(sweeps') = Len(sweeps)
                         /\ sweeps'[s].pc = "marking"
                         /\ sweeps'[s].ids = due
                         /\ sweeps'[s].now = clock
                 /\ \A k \in 1..Len(data) :
                      (/\ ~sweeps[s].error
                       /\ data[k].status = "active"
                       /\ data[k].category = "police_checkpoint") =>
                        /\ clock = data[k].updated_at + 299000
                              => data[k].id \notin PassedIds(s)
                        /\ clock = data[k].updated_at + 301000
                              => data[k].id \in PassedIds(s)
        /\ ApplyMarkExpired(s) =>
             \A r \in sweeps[s].ids :
                 reports[r].status # "none" => reports'[r].status = "expired"
      ]_vars

\* C1 witness: a police_checkpoint report anchored at T0 and still active, one
\* sweep evaluated at T0 + 4min59s that passed other ids but not this one, and
\* one sweep evaluated at T0 + 5min1s that passed it
C1_Witness ==
    \E r \in ReportIds, a \in DOMAIN sweeps, b \in DOMAIN sweeps :
        /\ reports[r].status = "active"
        /\ reports[r].category = "police_checkpoint"
        /\ sweeps[a].pc = "marking" /\ sweeps[b].pc = "marking"
        /\ sweeps[a].now = reports[r].updated_at + 299000
        /\ r \notin sweeps[a].ids
        /\ sweeps[b].now = reports[r].updated_at + 301000
        /\ r \in sweeps[b].ids

\* C2: the only status change the sweeper applies is active -> expired: a
\* report that is resolved or expired when the bulk update is applied keeps
\* its status and its updated_at.
C2_SweeperTouchesOnlyActive ==
    [][\A s \in DOMAIN sweeps :
        ApplyMarkExpired(s) =>
            \A r \in ReportIds :
                reports[r].status \in {"resolved", "expired"}
                    => reports'[r] = reports[r]
      ]_vars

TimerInv(c) ==
    /\ Cardinality(timers[c]) <= 1
    /\ (timers[c] # {}) <=> isRunning[c]
    /\ isRunning[c] => timers[c] = {intervalId[c]}

\* C3: the sweeper is a two-state machine, initially Stopped: start() in
\* Stopped moves to Running, stop() in Running moves to Stopped, start() in
\* Running and stop() in Stopped change nothing; at most one periodic timer
\* exists, and one exists if and only if the state is Running.
C3_TwoStateMachine ==
    [][\A c \in Clients :
        /\ begun = 0 => ~isRunning[c]
        /\ TimerInv(c)
        /\ TimerInv(c)'
        /\ start(c) => isRunning'[c]
        /\ stop(c) => ~isRunning'[c]
        /\ (isRunning[c] /\ start(c)) => UNCHANGED vars
        /\ (~isRunning[c] /\ stop(c)) => UNCHANGED vars
        /\ isRunning'[c] # isRunning[c] => (start(c) \/ stop(c))
      ]_vars

\* C3 witness: one sweeper Running with its single timer while another, which
\* was started and stopped (a sweep of it is still in flight), has none
C3_Witness ==
    \E c \in Clients, d \in Clients :
        /\ isRunning[c] /\ timers[c] = {intervalId[c]}
        /\ ~isRunning[d] /\ timers[d] = {} /\ intervalId[d] = 0
        /\ \E s \in DOMAIN sweeps : sweeps[s].client = d

\* C4: once stop() has returned, no sweep of that sweeper begins until start()
\* is called again; stop() leaves the sweeps in flight as they are, and the
\* bulk update of such a sweep can still be applied.
C4_StopCancelsOnlyTheTimer ==
    [][\A c \in Clients :
        /\ (/\ ~isRunning[c]
            /\ begun' > begun
            /\ sweeps'[Len(sweeps')].client = c) => start(c)
        /\ stop(c) => (sweeps' = sweeps /\ timers'[c] = {})
        /\ \A s \in DOMAIN sweeps :
              (ApplyMarkExpired(s) /\ sweeps[s].client = c /\ ~isRunning[c]) =>
                  \A r \in sweeps[s].ids :
                      reports[r].status # "none" => reports'[r].status = "expired"
      ]_vars

\* C4 witness: a sweeper is Stopped, its timer gone, and a sweep it began is
\* still in flight with its bulk update under way
C4_Witness ==
    \E s \in DOMAIN sweeps :
        /\ sweeps[s].pc = "marking"
        /\ ~isRunning[sweeps[s].client]
        /\ timers[sweeps[s].client] = {}

\* C5: a sweep passes no report that was already expired when it fetched, so a
\* sweep run right after another passes no id the first one set to expired;
\* and a bulk update changes no row outside the ids passed, so it does not
\* refresh that report's updated_at again.
C5_SecondSweepSkipsExpired ==
    [][\A s \in DOMAIN sweeps :
        /\ EvaluateSweep(s) =>
             \A k \in 1..Len(sweeps[s].data) :
                 sweeps[s].data[k].status = "expired"
                     => sweeps[s].data[k].id \notin PassedIds(s)
        /\ EvaluateSweep(s) =>
             PassedIds(s) \subseteq
                 {sweeps[s].data[k].id : k \in 1..Len(sweeps[s].data)}
        /\ ApplyMarkExpired(s) =>
             \A r \in ReportIds \ sweeps[s].ids : reports'[r] = reports[r]
      ]_vars

\* C5 witness: the second sweep, evaluated at the very instant at which the
\* first one's bulk update set report r to expired, has passed other ids and
\* not r, and r's updated_at is still the one the first sweep gave it
C5_Witness ==
    \E s \in DOMAIN sweeps, r \in ReportIds :
        /\ begun = 2 /\ Len(sweeps) = 1
        /\ sweeps[s].pc = "marking"
        /\ reports[r].status = "expired"
        /\ reports[r].updated_at = sweeps[s].now
        /\ sweeps[s].now = clock
        /\ r \notin sweeps[s].ids

CalcDone(fs) == fs \subseteq calc.evaluated

\* C6: evaluated at the same instant, isReportExpired true implies
\* getTimeUntilExpiry 0, and getTimeUntilExpiry > 0 implies isReportExpired
\* false.
C6_ExpiredMeansNoTimeLeft ==
    CalcDone({"isReportExpired", "getTimeUntilExpiry"}) =>
        /\ calc.expired => calc.remaining = 0
        /\ calc.remaining > 0 => ~calc.expired

\* C6 witness: both evaluated on an expired report
C6_Witness ==
    /\ CalcDone({"isReportExpired", "getTimeUntilExpiry"})
    /\ calc.expired
    /\ clock > calc.updatedAt + StatedTTL[calc.category] * 60000

\* C7: calculateExpiryTime(category, t) - t is exactly TTL(category), with the
\* six TTLs the specification states, one entry per category.
C7_ExpiryTimeIsAnchorPlusTTL ==
    /\ DOMAIN StatedTTL = Categories
    /\ \A c \in Categories : EXPIRY_TIMES(c) = StatedTTL[c]
    /\ CalcDone({"calculateExpiryTime"}) =>
          calc.expiryTime - calc.updatedAt = StatedTTL[calc.category] * 60000

\* C7 witness: the expiry time of a report with a non-zero anchor was computed
C7_Witness ==
    /\ CalcDone({"calculateExpiryTime"})
    /\ calc.updatedAt > 0
    /\ calc.category = "road_hazard"

\* the milliseconds left until the stated expiry
StatedLeft == calc.updatedAt + StatedTTL[calc.category] * 60000 - clock

\* C8: getTimeUntilExpiry is max(0, floor((expiryTime - now) / 60 s)): never
\* negative, and 0 with between 1 and 59 seconds left, while isReportExpired
\* is still false.
C8_RemainingIsFlooredMinutes ==
    /\ CalcDone({"getTimeUntilExpiry"}) =>
          /\ calc.remaining >= 0
          /\ StatedLeft <= 0 => calc.remaining = 0
          /\ StatedLeft > 0 =>
                /\ calc.remaining * 60000 <= StatedLeft
                /\ StatedLeft < (calc.remaining + 1) * 60000
    /\ (/\ CalcDone({"getTimeUntilExpiry", "isReportExpired"})
        /\ StatedLeft >= 1000
        /\ StatedLeft <= 59000) => (calc.remaining = 0 /\ ~calc.expired)

\* C8 witness: 59 seconds left, 0 minutes reported, not expired
C8_Witness ==
    /\ CalcDone({"getTimeUntilExpiry", "isReportExpired"})
    /\ StatedLeft = 59000
    /\ calc.remaining = 0
    /\ ~calc.expired

\* C9: isReportAboutToExpire is true if and only if 0 < getTimeUntilExpiry <= 1;
\* it is false for an expired report and false for a report that is not
\* expired with 0 minutes remaining.
C9_AboutToExpireIffOneMinute ==
    /\ CalcDone({"isReportAboutToExpire", "getTimeUntilExpiry"}) =>
          (calc.aboutToExpire <=> (0 < calc.remaining /\ calc.remaining <= 1))
    /\ CalcDone({"isReportAboutToExpire"}) =>
          /\ StatedLeft <= 0 => ~calc.aboutToExpire
          /\ (StatedLeft > 0 /\ StatedLeft < 60000) => ~calc.aboutToExpire
          /\ (StatedLeft >= 60000 /\ StatedLeft < 120000) => calc.aboutToExpire

\* C9 witness: not expired, 0 minutes remaining, not about to expire
C9_Witness ==
    /\ CalcDone({"isReportAboutToExpire", "getTimeUntilExpiry", "isReportExpired"})
    /\ ~calc.expired
    /\ calc.remaining = 0
    /\ ~calc.aboutToExpire

\* the positions of the view that hold report id r
Entries(r) == {i \in DOMAIN view : view[i].id = r}

\* C10: after any sequence of insert, update and delete events and of
\* pagination or refresh loads the local ordered view holds every report id
\* at most once, and a handled insert event leaves exactly one entry for its
\* id, whether or not the view held the id already.  A step of the sequence
\* is any step but a caller's updateReports(newReports).
C10_ViewHoldsEachIdOnce ==
    [][(/\ \A r \in ReportIds : Cardinality(Entries(r)) <= 1
        /\ ~(\E newReports \in CallerLists : updateReports(newReports))) =>
           /\ \A r \in ReportIds : Cardinality(Entries(r))' <= 1
           /\ \A h \in DOMAIN hydrations, r \in ReportIds :
                (/\ Hydrate(h)
                 /\ ~hydrations[h].error
                 /\ hydrations[h].eventType = "INSERT"
                 /\ hydrations[h].id = r) => Cardinality(Entries(r))' = 1
      ]_vars

\* C10 witness: the handler of insert events ran twice for the same report id,
\* nothing removed the id in between, and the view holds one entry for it
C10_Witness ==
    \E r \in ReportIds :
        /\ screen = "hook"
        /\ calls["onNewReport", r] = 2
        /\ calls["onDeleteReport", r] = 0
        /\ Cardinality(Entries(r)) = 1

\* C11: an insert or update event whose hydrated report was submitted by the
\* current user invokes the local-view handler but never
\* sendComprehensiveNotification; for a report of another user the
\* notification is called as well.
C11_OwnReportsNotNotified ==
    [][\A h \in DOMAIN hydrations, r \in ReportIds :
        (Hydrate(h) /\ ~hydrations[h].error /\ hydrations[h].id = r) =>
            /\ calls' # calls
            /\ AuthorOf(r) = currentUser => notified' = notified
            /\ AuthorOf(r) # currentUser => notified' # notified
      ]_vars

\* C12: an update event hydrated to an expired report removes the id from the
\* local view and is not notified as an update: after the event is processed
\* the view has no entry for the id and no 'update' notification was called
\* for it.
C12_ExpiredUpdateRemoves ==
    [][\A h \in DOMAIN hydrations, r \in ReportIds :
        (/\ Hydrate(h)
         /\ hydrations[h].id = r
         /\ hydrations[h].eventType = "UPDATE"
         /\ ~hydrations[h].error
         /\ hydrations[h].data.status = "expired") =>
            /\ Entries(r)' = {}
            /\ notified'["update", r] = notified["update", r]
      ]_vars

\* C13: once unsubscribe has run no handler and no notification call is
\* invoked any more, also for the events whose getReportById was in flight
\* when it ran.
C13_NothingAfterUnsubscribe ==
    [][~subscribed => (calls' = calls /\ notified' = notified)]_vars

\* the gating conditions as the decision sequence lists them, for the call c
\* whose preferences have just been read
MasterDisabled(c) == ~sending[c].prefs.global_settings.master_enabled

CategoryDisabled(c) ==
    ~sending[c].prefs[mapCategoryToPreferenceKey(sending[c].category)].enabled

InsideQuietHours(c) ==
    isInQuietHours(sending[c].prefs.global_settings.quiet_hours, clock)

Throttled(c) ==
    ~shouldSendNotification(
        sending[c].category,
        sending[c].prefs[mapCategoryToPreferenceKey(sending[c].category)].frequency,
        lastNotificationTimes, clock)

\* C14: when a gating condition fails on the preferences the call read
\* (master disabled, category disabled, inside quiet hours, throttled)
\* sendComprehensiveNotification ends there without effect: no record is
\* persisted, no system notification is dispatched and the per-category
\* last-sent clock is unchanged.
C14_GatedCallHasNoEffect ==
    [][\A c \in Calls :
        (/\ CheckGates(c)
         /\ mapCategoryToPreferenceKey(sending[c].category) \in DOMAIN sending[c].prefs
         /\ \/ MasterDisabled(c)
            \/ CategoryDisabled(c)
            \/ InsideQuietHours(c)
            \/ Throttled(c)) =>
            /\ sending'[c].pc = "done"
            /\ sending'[c].outcome \in {"disabled", "quiet_hours", "throttled"}
            /\ notifications' = notifications
            /\ returned' = returned
            /\ dispatched' = dispatched
            /\ lastNotificationTimes' = lastNotificationTimes
      ]_vars

\* quiet hours 22:00-07:00 on all days were set by updateGlobalSettings; an
\* event at 23:00 has ended at the quiet-hours gate, and nothing is
\* persisted or dispatched
C14_Witness ==
    /\ preferences.global_settings.quiet_hours = QuietOvernight
    /\ getHours(clock) = 23 /\ getMinutes(clock) = 0
    /\ \E c \in Calls : sending[c].pc = "done" /\ sending[c].outcome = "quiet_hours"
    /\ \A category \in Categories :
           notifications[category] = <<>> /\ dispatched[category] = 0
    /\ lastNotificationTimes = [c \in {} |-> 0]

\* minutes since midnight of a time of day
MinuteOfDay(hm) == hm[1] * 60 + hm[2]

\* C15: for an enabled overnight window (start later than end) isInQuietHours
\* is true exactly at or after the start or at or before the end, on a
\* configured weekday; for 22:00-07:00 on all days it is true at 23:30 and
\* at 06:30 and false at 12:00.
C15_OvernightQuietHours ==
    LET q == preferences.global_settings.quiet_hours
        t == getHours(clock) * 60 + getMinutes(clock)
    IN  (q.enabled /\ MinuteOfDay(q.start_time) > MinuteOfDay(q.end_time)) =>
            /\ isInQuietHours(q, clock) <=>
                   /\ getDay(clock) \in q.days
                   /\ \/ t >= MinuteOfDay(q.start_time)
                      \/ t <= MinuteOfDay(q.end_time)
            /\ (q.start_time = <<22, 0>> /\ q.end_time = <<7, 0>> /\ q.days = 0..6) =>
                   /\ t = 23 * 60 + 30 => isInQuietHours(q, clock)
                   /\ t = 6 * 60 + 30 => isInQuietHours(q, clock)
                   /\ t = 12 * 60 => ~isInQuietHours(q, clock)

\* a call has ended at the quiet-hours gate at 06:30, in a window that began
\* the evening before
C15_Witness ==
    /\ preferences.global_settings.quiet_hours.start_time = <<22, 0>>
    /\ preferences.global_settings.quiet_hours.end_time = <<7, 0>>
    /\ getHours(clock) = 6 /\ getMinutes(clock) = 30
    /\ \E c \in Calls : sending[c].pc = "done" /\ sending[c].outcome = "quiet_hours"

\* the interval of a frequency, in ms
StatedInterval(frequency) ==
    CASE frequency = "every_5min" -> 5 * 60000
      [] frequency = "every_15min" -> 15 * 60000
      [] frequency = "hourly" -> 60 * 60000
      [] frequency = "daily" -> 24 * 60 * 60000

\* C16: shouldSendNotification is true for immediate; otherwise it is true
\* iff the time since the last notification sent for the category is at
\* least the interval of the frequency, and true when nothing was sent yet
\* for the category; hourly: false 30 minutes after the last send, true 61
\* minutes after it.
C16_FrequencyThrottle ==
    \A category \in NotifyCategories :
        /\ \A frequency \in Frequencies :
               shouldSendNotification(category, frequency,
                                      lastNotificationTimes, clock) <=>
                   \/ frequency = "immediate"
                   \/ category \notin DOMAIN lastNotificationTimes
                   \/ clock - lastNotificationTimes[category] >= StatedInterval(frequency)
        /\ category \in DOMAIN lastNotificationTimes =>
               /\ clock - lastNotificationTimes[category] = 30 * 60000 =>
                      ~shouldSendNotification(category, "hourly",
                                              lastNotificationTimes, clock)
               /\ clock - lastNotificationTimes[category] = 61 * 60000 =>
                      shouldSendNotification(category, "hourly",
                                             lastNotificationTimes, clock)

\* an hourly category was notified, and the call made 30 minutes later has
\* ended at the frequency gate
C16_Witness ==
    /\ preferences.police_checkpoints.frequency = "hourly"
    /\ "police_checkpoint" \in DOMAIN lastNotificationTimes
    /\ clock - LastTime(lastNotificationTimes, "police_checkpoint") = 30 * 60000
    /\ \E c \in Calls :
           /\ sending[c].category = "police_checkpoint"
           /\ sending[c].pc = "done"
           /\ sending[c].outcome = "throttled"

\* every report of the store, as rows
AllReports(store) == getReports(store, Cardinality(Existing(store)), 0)

\* C17: with the sweeper running and the store calls succeeding, a sweep
\* covers every report that is active with its TTL elapsed, whatever the
\* other reports of the store: its fetch returns each of them, its
\* evaluation passes each of them to the bulk update, and the bulk update
\* leaves each of them expired.
C17_SweepExaminesAllReports ==
    [][\A s \in DOMAIN sweeps :
        /\ FetchReports(s) =>
               DueIds(AllReports(reports), clock) \subseteq
                   {sweeps'[s].data[i].id : i \in DOMAIN sweeps'[s].data}
        /\ (EvaluateSweep(s) /\ ~sweeps[s].error) =>
               DueIds(sweeps[s].data, clock) \subseteq PassedIds(s)
        /\ ApplyMarkExpired(s) =>
               \A r \in sweeps[s].ids : reports'[r].status = "expired"
      ]_vars

\* C18: an edit that refreshes updated_at to t restarts the countdown: a sweep
\* marks an active report expired only at or after its updated_at plus the
\* TTL of its category, also when the edit was applied between the sweep's
\* fetch and its bulk update.
C18_EditRestartsCountdown ==
    [][\A s \in DOMAIN sweeps : \A r \in ReportIds :
        (/\ ApplyMarkExpired(s)
         /\ r \in sweeps[s].ids
         /\ reports[r].status = "active") =>
            clock >= reports[r].updated_at + StatedTTL[reports[r].category] * 60000
      ]_vars

\* the sweeps of client c in flight
SweepsInFlight(c) == {s \in DOMAIN sweeps : sweeps[s].client = c}

\* C19: at most one sweep of a sweeper instance is in flight at any time.
C19_OneSweepInFlight ==
    \A c \in Clients : Cardinality(SweepsInFlight(c)) <= 1

\* C20: a sweep that fails (the fetch returns an error, the bulk update
\* returns an error or throws) returns without raising: the run is over, the
\* sweeper is Running as before with its timer intact and the store is
\* untouched; and a tick of the timer begins a full sweep again.
C20_FailedSweepKeepsRunning ==
    [][/\ \A s \in DOMAIN sweeps :
            (\/ EvaluateSweep(s) /\ sweeps[s].error
             \/ MarkExpiredFails(s)) =>
                /\ Len(sweeps') = Len(sweeps) - 1
                /\ isRunning' = isRunning
                /\ intervalId' = intervalId
                /\ timers' = timers
                /\ isRunning[sweeps[s].client] =>
                       timers'[sweeps[s].client] = {intervalId'[sweeps[s].client]}
                /\ reports' = reports
       /\ \A c \in Clients :
            TimerTick(c) => sweeps' = Append(sweeps, NewSweep(c))
      ]_vars

\* client 1 began two sweeps over the report that is due: one has returned
\* and left it active, so it failed; the sweeper is Running with its timer,
\* and the other sweep has fetched, evaluated and sent the bulk update
C20_Witness ==
    /\ begun = 2
    /\ Len(sweeps) = 1
    /\ sweeps[1].client = 1
    /\ ~isRunning[2]
    /\ sweeps[1].pc = "marking"
    /\ sweeps[1].ids = {1}
    /\ reports[1].status = "active"
    /\ isRunning[1]
    /\ timers[1] = {intervalId[1]}

\* C23: the effects of the change events follow their order of arrival: the
\* handler of an event about a report id runs only when no event about the
\* same id that arrived earlier is still waiting for its getReportById.
C23_EffectsInArrivalOrder ==
    [][/\ \A h \in DOMAIN hydrations : \A g \in 1..(h - 1) :
            (/\ Hydrate(h)
             /\ hydrations[g].id = hydrations[h].id
             /\ hydrations[g].eventType # hydrations[h].eventType) => FALSE
       /\ (/\ feed # <<>>
           /\ Deliver(FALSE)
           /\ Head(feed).eventType = "DELETE") =>
              \A g \in DOMAIN hydrations : hydrations[g].id # Head(feed).id
      ]_vars

\* C24: when every change event delivered to the client has been processed,
\* with every getReportById resolved, the local view holds no report that is
\* expired or deleted in the store.
C24_SettledViewHoldsNoExpired ==
    (feed = <<>> /\ hydrations = <<>>) =>
        \A i \in DOMAIN view :
            reports[view[i].id].status \notin {"expired", "deleted"}

\* C25: an insert event for a report id that the local view already holds is
\* skipped entirely: the view is unchanged and no 'new' notification is called.
C25_DuplicateInsertSkipped ==
    [][\A h \in DOMAIN hydrations, r \in ReportIds :
        (/\ Hydrate(h)
         /\ hydrations[h].id = r
         /\ hydrations[h].eventType = "INSERT"
         /\ ~hydrations[h].error
         /\ InView(view, r)) =>
            /\ view' = view
            /\ notified'["new", r] = notified["new", r]
      ]_vars

\* C26: when getReportById of an insert or update event returns an error or
\* no report, the event is dropped: the view is unchanged, no handler is
\* called, no notification is sent, the callback returns, and the
\* subscription and the other events are as before.
C26_FailedFetchDropsEvent ==
    [][\A h \in DOMAIN hydrations :
        (\/ HydrateFails(h)
         \/ Hydrate(h) /\ hydrations[h].error) =>
            /\ view' = view
            /\ calls' = calls
            /\ notified' = notified
            /\ hydrations' = Without(hydrations, h)
            /\ subscribed' = subscribed
            /\ feed' = feed
      ]_vars

\* the insert event of report 1 was dropped (given to the channel, no handler
\* of new reports called, not in the view) and an update event of the report,
\* which arrived after it, was processed
C26_Witness ==
    /\ subscribed
    /\ published = 2
    /\ feed = <<>> /\ hydrations = <<>>
    /\ reports[1].status = "active"
    /\ calls["onNewReport", 1] = 0
    /\ ~InView(view, 1)
    /\ calls["onUpdateReport", 1] = 1

\* the records persisted for a category
Persisted(category) == {notifications[category][i] : i \in DOMAIN notifications[category]}

\* C27: for a category whose frequency is not immediate, any two records
\* persisted by sendComprehensiveNotification for the category are at least
\* the throttle interval apart, also when the second call starts before the
\* first has recorded its send time.
C27_PersistedRecordsSeparated ==
    \A category \in NotifyCategories :
        LET frequency == preferences[mapCategoryToPreferenceKey(category)].frequency
        IN  frequency # "immediate" =>
                \A m, n \in Persisted(category) :
                    (m.id # n.id /\ m.created_at <= n.created_at) =>
                        n.created_at - m.created_at >= StatedInterval(frequency)

\* C28: a call that passed the gates persists its record whatever the
\* delivery channel and before the system dispatch is attempted; the
\* dispatch, scheduled or failed, leaves the stored lists as they are, the
\* call ends normally and its record is still stored.
C28_PersistedBeforeDispatch ==
    [][\A c \in Calls :
        /\ SendSystemNotification(c) =>
               /\ sending[c].id \in returned
               /\ \E n \in Persisted(sending[c].category) : n.id = sending[c].id
               /\ notifications' = notifications
               /\ sending'[c].outcome = "sent"
        /\ (sending[c].pc # "done" /\ sending'[c].pc = "done"
            /\ sending'[c].outcome = "sent") =>
               \E i \in DOMAIN notifications'[sending[c].category] :
                   notifications'[sending[c].category][i].id = sending[c].id
      ]_vars

\* a call with the system channel enabled has ended normally, its dispatch
\* scheduled nothing, and its record is stored
C28_Witness ==
    \E c \in Calls :
        /\ sending[c].pc = "done" /\ sending[c].outcome = "sent"
        /\ sending[c].show_system
        /\ dispatched[sending[c].category] = 0
        /\ \E n \in Persisted(sending[c].category) : n.id = sending[c].id

\* C29: every notification storeNotification returned is in the stored list
\* of a category unless it was explicitly deleted, cleaned up or cleared,
\* also when two storeNotification calls, or a storeNotification and an
\* updateNotificationStatus call, for one category interleave at their
\* awaits.
C29_NoStoredNotificationLost ==
    \A id \in returned \ removed :
        \E category \in Categories : \E n \in Persisted(category) : n.id = id

\* the ids of a stored list of queued notifications
QueuedIds(list) == {list[i].id : i \in DOMAIN list}

\* C30: a queued notification is sent at most maxRetries (3) times; the
\* failed list holds notifications whose retries are exhausted, and no id is
\* in the pending queue and in the failed list at once.
C30_RetriesBoundedAndListsDisjoint ==
    /\ \A id \in DOMAIN attempts : attempts[id] <= MAX_RETRIES
    /\ \A i \in DOMAIN failed : failed[i].retryCount >= failed[i].maxRetries
    /\ QueuedIds(queue) \cap QueuedIds(failed) = {}

\* C22: once every auth-state-change handler has run to completion, the
\* sweeper is Running if and only if the most recent auth event carried a
\* session; after a sign-out it is Stopped, also when the sign-out arrived
\* while the handler of an earlier sign-in was awaiting the profile load.
C22_RunningIffSession ==
    handlers = <<>> => \A c \in Clients : isRunning[c] <=> session

\* C21: a start() in Stopped begins exactly one sweep at once and creates
\* one timer whose first tick is due 30 seconds later; while Running the
\* next tick is never more than 30 seconds away and each tick begins
\* exactly one sweep; a start() in Running begins no sweep and creates no
\* timer; no sweep begins otherwise.
C21_SweepAtStartAndEachTick ==
    [][/\ \A c \in Clients :
           /\ (TimedStart(c) /\ ~isRunning[c]) =>
                  /\ isRunning'[c]
                  /\ sweeps' = Append(sweeps, NewSweep(c))
                  /\ Cardinality(timers'[c]) = Cardinality(timers[c]) + 1
                  /\ nextTick'[c] = clock + 30000
           /\ (TimedStart(c) /\ isRunning[c]) =>
                  /\ sweeps' = sweeps /\ begun' = begun
                  /\ timers' = timers /\ nextTick' = nextTick
           /\ IntervalElapses(c) =>
                  /\ isRunning[c]
                  /\ sweeps' = Append(sweeps, NewSweep(c))
                  /\ nextTick'[c] = clock + 30000
           /\ isRunning[c] =>
                  (clock <= nextTick[c] /\ nextTick[c] - clock <= 30000)
       /\ begun' > begun =>
              \E c \in Clients : \/ TimedStart(c) /\ ~isRunning[c]
                                 \/ IntervalElapses(c)
      ]_vars

\* the sweeper was started at 10 s: the sweep of the start is in flight, the
\* tick at 40 s has begun the second one, and the next tick is due at 70 s
C21_Witness ==
    \E c \in Clients :
        /\ isRunning[c]
        /\ clock = 40000
        /\ nextTick[c] = 70000
        /\ begun = 2
        /\ Len(sweeps) = 2

====
